---- MODULE Spec2Model ----
(***************************************************************************)
(* Model of the ClarityMentor voice pipeline (lebiraja/mentor_fine-tune):  *)
(*   - scripts/voice/model_manager.py   ModelManager (slot load / unload)  *)
(*   - scripts/voice_inference.py       VoiceInferencePipeline.process_turn*)
(*   - backend/api/websocket.py, backend/api/rest.py and                   *)
(*     backend/services/session_service.py  (turn loop and sessions)       *)
(*                                                                         *)
(* The repository has several entry points that share no state.  The      *)
(* variable mode says which one a behaviour runs:                          *)
(*   "cli"  the interactive pipeline (run_interactive / process_turn)      *)
(*   "mgr"  one caller driving ModelManager with arbitrary call sequences  *)
(*   "race" two threads calling load/unload_stt_pipeline concurrently      *)
(*   "web"  the FastAPI backend: one WebSocket connection and concurrent   *)
(*          REST requests                                                  *)
(*   "fusion"  one call of EmotionFusion.fuse (scripts/emotion/fusion.py)  *)
(*   "augment" one call of PromptAugmenter.augment_system_prompt           *)
(*             (scripts/emotion/prompt_augmenter.py)                       *)
(*   "config"  PromptAugmenter built from a configuration file, then one   *)
(*             call of augment_system_prompt or get_voice_description      *)
(*   "speak"   the voice description EmotionalTTS.synthesize builds        *)
(*             (scripts/voice/tts.py)                                      *)
(*   "llm"     one call of the backend's LLMService._augment_system_prompt *)
(*             (backend/services/llm_service.py)                           *)
(*   "engine"  the EmotionFusion engine ModelService builds, then one fuse *)
(*             (backend/services/model_service.py)                         *)
(*   "sessions" one caller driving SessionService with arbitrary calls     *)
(*             (backend/services/session_service.py)                       *)
(*   "record"  one call of AudioIO.record_until_silence                    *)
(*             (scripts/voice/audio_io.py)                                 *)
(*   "textchat" the numbers of one POST /text-chat: detection on empty     *)
(*             audio, fusion, LLMService._augment_system_prompt            *)
(***************************************************************************)
EXTENDS Integers, Sequences, FiniteSets, TLC

\* ------------------------------------------------------------------ bounds
MaxTurns == 2

MaxCalls == 3

MaxRaceCalls == 3

MaxRequests == 2

MaxSessionCalls == 5

\* --------------------------------------------------------------- constants
None == 0

NoValue == "<none>"

PersistentSlots == {"llm", "vad"}

TransientSlots == {"stt", "speech_emotion", "text_emotion", "tts"}

Slots == PersistentSlots \cup TransientSlots

Modes == {"cli", "mgr", "race", "web", "fusion", "augment", "config", "speak",
          "llm", "engine", "textchat", "sessions", "record"}

\* What can happen to the construction / load call a ModelManager method
\* makes: "ok" it returns a model; "fallback" the primary model failed and the
\* detector installed its built-in fallback (SpeechEmotionDetector.load,
\* EmotionalTTS.load) and returned normally; "error" the call raises an
\* Exception; "post_error" (vad only) torch.hub.load returned and eval() or
\* .to("cuda") raised; "interrupt" a KeyboardInterrupt arrives during the call.
Faults == {"ok", "error", "interrupt"}

Texts == {"hello"}

\* Labels the detectors answer (a sample is represented by its label).
SpeechLabels == {"neutral"}

TextLabels == {"anger"}

Responses == {"reply"}

\* Confidence values are written in tenths (5 is 0.5).
DetectedConfidence == 9

VARIABLES
    mode,                  \* which entry point runs
    manager,               \* ModelManager: handle per slot + call counters
    call,                  \* "mgr": record of the last ModelManager call
    ncalls,                \* "mgr"/"race": calls made so far
    pc,                    \* "cli": position inside process_turn
    turn,                  \* "cli": run_interactive's turn counter
    conversation_history,  \* "cli": VoiceInferencePipeline.conversation_history
    emotion_history,       \* "cli": VoiceInferencePipeline.emotion_history
    frame,                 \* "cli": locals of the running process_turn
    result,                \* "cli": the dict process_turn returns
    own,                   \* "cli": which of the pipeline's own detector objects hold a model
    ghost,                 \* "cli": history snapshot at turn start, steps invoked, exit path
    tpc,                   \* "race": position of each thread
    tlocal,                \* "race": per-thread local (stt / the object whose unload() runs)
    released,              \* "race": objects on which unload() was called, in order
    raceError,             \* "race": a thread hit AttributeError on None
    sessions,              \* "web": SessionService.sessions
    ws,                    \* "web": state of the voice_websocket handler
    rest,                  \* "web": state of each in-flight POST /text-chat
    nreq,                  \* "web": requests started so far
    server,                \* "web": ModelService (start-up state of the backend)
    arg,                   \* "fusion"/"augment": the arguments of the call
    ret,                   \* "fusion"/"augment": what the call returned
    augmenter,             \* "config": the PromptAugmenter object
    engine,                \* "engine": the backend's EmotionFusion object
    recording              \* "record": locals of record_until_silence

mgrVars == <<manager, call, ncalls>>

cliVars == <<pc, turn, conversation_history, emotion_history, frame, result, own, ghost>>

raceVars == <<tpc, tlocal, released, raceError>>

webVars == <<sessions, ws, rest, nreq>>

auxVars == <<server, arg, ret, augmenter, engine, recording>>

vars == <<mode, manager, call, ncalls, pc, turn, conversation_history,
          emotion_history, frame, result, own, ghost, tpc, tlocal, released,
          raceError, sessions, ws, rest, nreq, server, arg, ret, augmenter,
          engine, recording>>

\* ================================================================ ModelManager
\* manager.handle[s] is the slot field (llm_model, vad_model, stt_pipe,
\* speech_emotion_model, text_emotion_model, tts_model); None is Python's None
\* and any other value identifies the object that was constructed.
\* manager.made[s] counts the constructions started for s and
\* manager.freed[s] the calls of that model's unload().
ManagerInit ==
    [handle |-> [s \in Slots |-> None],
     made   |-> [s \in Slots |-> 0],
     freed  |-> [s \in Slots |-> 0]]

Returned(m) == [m |-> m, raised |-> "none"]

Raised(m, kind) == [m |-> m, raised |-> kind]

LoadUnguarded(m, s, fault) ==
    IF fault = "ok"
    THEN Returned([m EXCEPT !.made[s] = @ + 1, !.handle[s] = m.made[s] + 1])
    ELSE Raised([m EXCEPT !.made[s] = @ + 1], fault)

\* A guarded load whose construction either yields an object, raises, or is
\* interrupted; the field is assigned only after the construction returned.
LoadGuarded(m, s, fault) ==
    IF m.handle[s] # None
    THEN Returned(m)
    ELSE IF fault = "ok"
         THEN Returned([m EXCEPT !.made[s] = @ + 1, !.handle[s] = m.made[s] + 1])
         ELSE Raised([m EXCEPT !.made[s] = @ + 1], fault)

UnloadGuarded(m, s) ==
    IF m.handle[s] # None
    THEN Returned([m EXCEPT !.freed[s] = @ + 1, !.handle[s] = None])
    ELSE Returned(m)

load_llm_persistent_unguarded(m, fault) == LoadUnguarded(m, "llm", fault)

load_llm_persistent(m, fault) == LoadGuarded(m, "llm", fault)

\* load_vad_persistent wraps the construction in try/except Exception and only
\* prints a warning; torch.hub.load's result is assigned before eval() and
\* .to("cuda") run, so a failure there ("post_error") leaves the field set.
load_vad_persistent(m, fault) ==
    IF m.handle["vad"] # None
    THEN Returned(m)
    ELSE CASE fault = "ok" ->
                Returned([m EXCEPT !.made["vad"] = @ + 1, !.handle["vad"] = m.made["vad"] + 1])
           [] fault = "post_error" ->
                Returned([m EXCEPT !.made["vad"] = @ + 1, !.handle["vad"] = m.made["vad"] + 1])
           [] fault = "error" ->
                Returned([m EXCEPT !.made["vad"] = @ + 1])
           [] OTHER ->
                Raised([m EXCEPT !.made["vad"] = @ + 1], fault)

load_stt_pipeline(m, fault) == LoadGuarded(m, "stt", fault)

unload_stt_pipeline(m) == UnloadGuarded(m, "stt")

\* SpeechEmotionDetector.load() catches every Exception of the underlying
\* model load and installs the feature-based fallback, so the call never
\* raises an Exception and the slot is assigned; only an interrupt escapes.
load_speech_emotion(m, fault) ==
    IF m.handle["speech_emotion"] # None
    THEN Returned(m)
    ELSE IF fault \in {"ok", "fallback"}
         THEN Returned([m EXCEPT !.made["speech_emotion"] = @ + 1,
                                 !.handle["speech_emotion"] = m.made["speech_emotion"] + 1])
         ELSE Raised([m EXCEPT !.made["speech_emotion"] = @ + 1], fault)

unload_speech_emotion(m) == UnloadGuarded(m, "speech_emotion")

load_text_emotion_assign_first(m, fault) ==
    IF m.handle["text_emotion"] # None
    THEN Returned(m)
    ELSE IF fault = "ok"
         THEN Returned([m EXCEPT !.made["text_emotion"] = @ + 1,
                                 !.handle["text_emotion"] = m.made["text_emotion"] + 1])
         ELSE Raised([m EXCEPT !.made["text_emotion"] = @ + 1,
                               !.handle["text_emotion"] = m.made["text_emotion"] + 1], fault)

load_text_emotion(m, fault) == LoadGuarded(m, "text_emotion", fault)

unload_text_emotion_skipped(m) == Returned(m)

unload_text_emotion(m) == UnloadGuarded(m, "text_emotion")

\* EmotionalTTS.load() falls back to pyttsx3 when Parler-TTS fails and raises
\* only when the fallback cannot be set up either.
load_tts(m, fault) == LoadGuarded(m, "tts", IF fault = "fallback" THEN "ok" ELSE fault)

unload_tts(m) == UnloadGuarded(m, "tts")

\* --------------------------------------------------- "mgr": one caller
ManagerOps ==
    {"load_llm_persistent", "load_vad_persistent",
     "load_stt_pipeline", "unload_stt_pipeline",
     "load_speech_emotion", "unload_speech_emotion",
     "load_text_emotion", "unload_text_emotion",
     "load_tts", "unload_tts"}

LoadOps ==
    {"load_llm_persistent", "load_vad_persistent", "load_stt_pipeline",
     "load_speech_emotion", "load_text_emotion", "load_tts"}

UnloadOps == ManagerOps \ LoadOps

SlotOf(op) ==
    CASE op = "load_llm_persistent" -> "llm"
      [] op = "load_vad_persistent" -> "vad"
      [] op \in {"load_stt_pipeline", "unload_stt_pipeline"} -> "stt"
      [] op \in {"load_speech_emotion", "unload_speech_emotion"} -> "speech_emotion"
      [] op \in {"load_text_emotion", "unload_text_emotion"} -> "text_emotion"
      [] OTHER -> "tts"

FaultsOf(op) ==
    CASE op = "load_vad_persistent" -> Faults \cup {"post_error"}
      [] op = "load_speech_emotion" -> {"ok", "fallback", "interrupt"}
      [] op = "load_tts"            -> Faults \cup {"fallback"}
      [] op \in LoadOps             -> Faults
      [] OTHER                      -> {"ok"}

Invoke(op, m, fault) ==
    CASE op = "load_llm_persistent"   -> load_llm_persistent(m, fault)
      [] op = "load_vad_persistent"   -> load_vad_persistent(m, fault)
      [] op = "load_stt_pipeline"     -> load_stt_pipeline(m, fault)
      [] op = "unload_stt_pipeline"   -> unload_stt_pipeline(m)
      [] op = "load_speech_emotion"   -> load_speech_emotion(m, fault)
      [] op = "unload_speech_emotion" -> unload_speech_emotion(m)
      [] op = "load_text_emotion"     -> load_text_emotion(m, fault)
      [] op = "unload_text_emotion"   -> unload_text_emotion(m)
      [] op = "load_tts"              -> load_tts(m, fault)
      [] OTHER                        -> unload_tts(m)

NoCall == [op |-> NoValue, slot |-> NoValue, fault |-> "ok",
           before |-> ManagerInit, raised |-> "none"]

\* One ModelManager method called by a single caller and run to completion.
ManagerCall ==
    /\ mode = "mgr"
    /\ ncalls < MaxCalls
    /\ \E op \in ManagerOps : \E fault \in FaultsOf(op) :
          LET r == Invoke(op, manager, fault) IN
            /\ manager' = r.m
            /\ call' = [op |-> op, slot |-> SlotOf(op), fault |-> fault,
                        before |-> manager, raised |-> r.raised]
    /\ ncalls' = ncalls + 1
    /\ UNCHANGED <<mode, auxVars, cliVars, raceVars, webVars>>

\* ============================================== "cli": VoiceInferencePipeline
Message(role, content) == [role |-> role, content |-> content]

\* What a detector's detect_emotion returns, without its scores dict.
Sample(label, confidence) == [emotion |-> label, confidence |-> confidence]

\* SpeechEmotionDetector._neutral_response()
speech_neutral_response == Sample("neutral", 5)

\* TextEmotionDetector._neutral_response()
text_neutral_response == Sample("neutral", 5)

\* EmotionFusion.fuse is a deterministic function of the two samples; in the
\* turn model its value is kept symbolic as the pair of samples it was given.
FusedOf(speech_emo, text_emo) == [speech |-> speech_emo, text |-> text_emo]

\* A sample / fused emotion that has not been computed yet.
NoSample == Sample(NoValue, 0)

NoFused == FusedOf(NoSample, NoSample)

NoFrame ==
    [audio |-> NoValue, user_text |-> NoValue, speech_emo |-> NoSample,
     text_emo |-> NoSample, emotion_context |-> NoFused, messages |-> << >>,
     response |-> NoValue, audio_response |-> NoValue]

EmptyResult == [user_text |-> "", emotion |-> NoValue, response |-> "", success |-> FALSE]

\* The pipeline constructs its own SpeechToText (which loads in __init__),
\* SpeechEmotionDetector, TextEmotionDetector and EmotionalTTS (which load
\* lazily on first use); process_turn computes with these objects.
OwnInit == [stt |-> TRUE, speech_emotion |-> FALSE, text_emotion |-> FALSE, tts |-> FALSE]

\* Before the constructor has run none of these objects exists.
OwnUnbuilt == [stt |-> FALSE, speech_emotion |-> FALSE, text_emotion |-> FALSE, tts |-> FALSE]

GhostInit ==
    [hist0 |-> << >>, emo0 |-> << >>, invoked |-> {}, exit |-> NoValue,
     leaked |-> {}, atLLM |-> {}, failed |-> {}, at |-> NoValue, fatal |-> NoValue,
     interrupted |-> FALSE]

LoadedTransients(m) == {s \in TransientSlots : m.handle[s] # None}

\* process_turn leaves through a return statement or through one of its two
\* except clauses; all of them hand `result` back to run_interactive.
Return(kind) ==
    /\ pc' = "returned"
    /\ ghost' = [ghost EXCEPT !.exit = kind, !.at = pc,
                              !.leaked = LoadedTransients(manager')]

\* except KeyboardInterrupt / except Exception: print and return result.
Abort(fault) ==
    /\ pc' = "returned"
    /\ ghost' = [ghost EXCEPT !.exit = fault, !.at = pc,
                              !.leaked = LoadedTransients(manager'),
                              !.interrupted = (fault = "interrupt")]
    /\ UNCHANGED <<turn, conversation_history, emotion_history, frame, result>>

\* main(): pipeline = VoiceInferencePipeline(config, model_path).  Of the
\* objects the constructor builds, SpeechToText loads its model in __init__
\* and re-raises a failure (VoiceActivityDetector catches its own; the other
\* detectors and EmotionalTTS load on first use); nothing in __init__ or
\* main() catches it, so the process ends before initialize().
VoiceInferencePipeline_init ==
    /\ mode = "cli"
    /\ pc = "unbuilt"
    /\ \/ /\ own' = OwnInit
          /\ pc' = "new"
          /\ ghost' = ghost
       \/ /\ own' = own
          /\ pc' = "crashed"
          /\ ghost' = [ghost EXCEPT !.fatal = "stt"]
    /\ UNCHANGED <<mode, auxVars, mgrVars, turn, conversation_history, emotion_history,
                   frame, result, raceVars, webVars>>

\* main(): pipeline.initialize() loads the persistent models; a failure of the
\* LLM load propagates out of main and ends the process.
initialize ==
    /\ mode = "cli"
    /\ pc = "new"
    /\ \E f1 \in FaultsOf("load_llm_persistent") : \E f2 \in FaultsOf("load_vad_persistent") :
         LET r1 == load_llm_persistent(manager, f1)
             r2 == load_vad_persistent(r1.m, f2) IN
           IF r1.raised # "none"
           THEN /\ manager' = r1.m
                /\ pc' = "crashed"
                /\ ghost' = [ghost EXCEPT !.fatal = "llm"]
           ELSE /\ manager' = r2.m
                /\ pc' = IF r2.raised # "none" THEN "crashed" ELSE "idle"
                /\ ghost' = [ghost EXCEPT !.fatal = IF r2.raised # "none" THEN "vad"
                                                    ELSE NoValue]
    /\ UNCHANGED <<mode, auxVars, call, ncalls, turn, conversation_history, emotion_history,
                   frame, result, own, raceVars, webVars>>

\* run_interactive: turn += 1; result = self.process_turn() -- entry of
\* process_turn up to the try statement.
StartTurn ==
    /\ mode = "cli"
    /\ pc \in {"idle", "returned"}
    /\ turn < MaxTurns
    /\ turn' = turn + 1
    /\ pc' = "load_stt"
    /\ frame' = NoFrame
    /\ result' = EmptyResult
    /\ ghost' = [ghost EXCEPT !.hist0 = conversation_history, !.emo0 = emotion_history,
                              !.invoked = {}, !.exit = NoValue, !.atLLM = {},
                              !.failed = {}, !.at = NoValue, !.interrupted = FALSE]
    /\ UNCHANGED <<mode, auxVars, mgrVars, conversation_history, emotion_history, own,
                   raceVars, webVars>>

\* run_interactive: a KeyboardInterrupt that arrives while the loop's own
\* statements run (between two calls of process_turn) reaches its except
\* clause: "Goodbye!" and self._save_conversation(turn), which catches its
\* own errors.  The loop is left.
RunInteractiveInterrupted ==
    /\ mode = "cli"
    /\ pc \in {"idle", "returned"}
    /\ pc' = "saved"
    /\ UNCHANGED <<mode, auxVars, mgrVars, turn, conversation_history, emotion_history,
                   frame, result, own, ghost, raceVars, webVars>>

\* self.manager.load_stt_pipeline()
TurnLoadStt ==
    /\ mode = "cli"
    /\ pc = "load_stt"
    /\ \E fault \in FaultsOf("load_stt_pipeline") :
         LET r == load_stt_pipeline(manager, fault) IN
           /\ manager' = r.m
           /\ IF r.raised = "none"
              THEN /\ pc' = "load_speech_emotion"
                   /\ UNCHANGED <<turn, conversation_history, emotion_history,
                                  frame, result, ghost>>
              ELSE Abort(r.raised)
    /\ UNCHANGED <<mode, auxVars, call, ncalls, own, raceVars, webVars>>

\* self.manager.load_speech_emotion()
TurnLoadSpeechEmotion ==
    /\ mode = "cli"
    /\ pc = "load_speech_emotion"
    /\ \E fault \in FaultsOf("load_speech_emotion") :
         LET r == load_speech_emotion(manager, fault) IN
           /\ manager' = r.m
           /\ IF r.raised = "none"
              THEN /\ pc' = "record"
                   /\ UNCHANGED <<turn, conversation_history, emotion_history,
                                  frame, result, ghost>>
              ELSE Abort(r.raised)
    /\ UNCHANGED <<mode, auxVars, call, ncalls, own, raceVars, webVars>>

\* audio, duration = self.audio_io.record_until_silence(self.vad) and the
\* len(audio) == 0 branch.  record_until_silence catches KeyboardInterrupt
\* itself and returns an empty array; a device error raised by sounddevice is
\* not caught there and reaches process_turn's except Exception.  Without
\* an interrupt the array holds at least one chunk.
TurnRecord ==
    /\ mode = "cli"
    /\ pc = "record"
    /\ \E outcome \in {"speech", "interrupt", "error"} :
         CASE outcome = "speech" ->
                /\ frame' = [frame EXCEPT !.audio = "speech"]
                /\ pc' = "transcribe"
                /\ UNCHANGED <<manager, turn, conversation_history, emotion_history,
                               result, ghost>>
           [] outcome = "interrupt" ->
                /\ frame' = [frame EXCEPT !.audio = "empty"]
                /\ manager' = unload_speech_emotion(unload_stt_pipeline(manager).m).m
                /\ pc' = "returned"
                /\ ghost' = [ghost EXCEPT !.exit = "empty_audio", !.at = pc,
                                          !.leaked = LoadedTransients(manager'),
                                          !.interrupted = TRUE]
                /\ UNCHANGED <<turn, conversation_history, emotion_history, result>>
           [] OTHER ->
                /\ manager' = manager
                /\ Abort("error")
    /\ UNCHANGED <<mode, auxVars, call, ncalls, own, raceVars, webVars>>

TurnTranscribe_no_empty_check ==
    /\ mode = "cli"
    /\ pc = "transcribe"
    /\ \/ \E text \in Texts \cup {""} :
            /\ frame' = [frame EXCEPT !.user_text = text]
            /\ pc' = "detect_speech"
            /\ UNCHANGED <<manager, turn, conversation_history, emotion_history,
                           result, ghost>>
       \/ /\ manager' = manager
          /\ Abort("interrupt")
    /\ UNCHANGED <<mode, auxVars, call, ncalls, own, raceVars, webVars>>

\* user_text = self.stt.transcribe(...) and the `not user_text` branch.
\* SpeechToText.transcribe returns "" for every Exception; a
\* KeyboardInterrupt passes through it.
TurnTranscribe ==
    /\ mode = "cli"
    /\ pc = "transcribe"
    /\ \/ \E text \in Texts :
            /\ frame' = [frame EXCEPT !.user_text = text]
            /\ pc' = "detect_speech"
            /\ UNCHANGED <<manager, turn, conversation_history, emotion_history,
                           result, ghost>>
       \/ /\ frame' = [frame EXCEPT !.user_text = ""]
          /\ manager' = unload_speech_emotion(unload_stt_pipeline(manager).m).m
          /\ Return("empty_transcript")
          /\ UNCHANGED <<turn, conversation_history, emotion_history, result>>
       \/ /\ manager' = manager
          /\ Abort("interrupt")
    /\ UNCHANGED <<mode, auxVars, call, ncalls, own, raceVars, webVars>>

\* speech_emo = self.speech_emotion.detect_emotion(...): loads the pipeline's
\* own detector on first use (never raises), answers _neutral_response() for
\* every Exception raised inside its try block, lets a KeyboardInterrupt
\* through.
TurnDetectSpeech ==
    /\ mode = "cli"
    /\ pc = "detect_speech"
    /\ \/ \E label \in SpeechLabels :
            /\ frame' = [frame EXCEPT !.speech_emo = Sample(label, DetectedConfidence)]
            /\ own' = [own EXCEPT !.speech_emotion = TRUE]
            /\ pc' = "unload_listen"
            /\ UNCHANGED <<manager, turn, conversation_history, emotion_history,
                           result, ghost>>
       \/ /\ frame' = [frame EXCEPT !.speech_emo = speech_neutral_response]
          /\ own' = [own EXCEPT !.speech_emotion = TRUE]
          /\ ghost' = [ghost EXCEPT !.failed = @ \cup {"speech"}]
          /\ pc' = "unload_listen"
          /\ UNCHANGED <<manager, turn, conversation_history, emotion_history, result>>
       \/ /\ manager' = manager
          /\ own' = own
          /\ Abort("interrupt")
    /\ UNCHANGED <<mode, auxVars, call, ncalls, raceVars, webVars>>

\* self.manager.unload_stt_pipeline(); self.manager.unload_speech_emotion()
TurnUnloadListen ==
    /\ mode = "cli"
    /\ pc = "unload_listen"
    /\ manager' = unload_speech_emotion(unload_stt_pipeline(manager).m).m
    /\ pc' = "load_text_emotion"
    /\ UNCHANGED <<mode, auxVars, call, ncalls, turn, conversation_history, emotion_history,
                   frame, result, own, ghost, raceVars, webVars>>

\* self.manager.load_text_emotion()
TurnLoadTextEmotion ==
    /\ mode = "cli"
    /\ pc = "load_text_emotion"
    /\ \E fault \in FaultsOf("load_text_emotion") :
         LET r == load_text_emotion(manager, fault) IN
           /\ manager' = r.m
           /\ IF r.raised = "none"
              THEN /\ pc' = "detect_text"
                   /\ UNCHANGED <<turn, conversation_history, emotion_history,
                                  frame, result, ghost>>
              ELSE Abort(r.raised)
    /\ UNCHANGED <<mode, auxVars, call, ncalls, own, raceVars, webVars>>

\* The first-use load of the pipeline's own TextEmotionDetector raises: the
\* call `self.load()` stands before the try block of detect_emotion, so the
\* Exception reaches process_turn's except clause.
TurnDetectText_load_raises ==
    /\ ~own.text_emotion
    /\ manager' = manager
    /\ own' = own
    /\ pc' = "returned"
    /\ ghost' = [ghost EXCEPT !.exit = "error", !.at = pc,
                              !.failed = @ \cup {"text"},
                              !.leaked = LoadedTransients(manager)]
    /\ UNCHANGED <<turn, conversation_history, emotion_history, frame, result>>

\* text_emo = self.text_emotion.detect_emotion(user_text): the pipeline's own
\* detector loads on first use, outside the try block, so a load failure
\* raises; afterwards every Exception yields _neutral_response().
TurnDetectText ==
    /\ mode = "cli"
    /\ pc = "detect_text"
    /\ \/ \E label \in TextLabels :
            /\ frame' = [frame EXCEPT !.text_emo = Sample(label, DetectedConfidence)]
            /\ own' = [own EXCEPT !.text_emotion = TRUE]
            /\ pc' = "unload_text_emotion"
            /\ UNCHANGED <<manager, turn, conversation_history, emotion_history,
                           result, ghost>>
       \/ /\ frame' = [frame EXCEPT !.text_emo = text_neutral_response]
          /\ own' = [own EXCEPT !.text_emotion = TRUE]
          /\ ghost' = [ghost EXCEPT !.failed = @ \cup {"text"}]
          /\ pc' = "unload_text_emotion"
          /\ UNCHANGED <<manager, turn, conversation_history, emotion_history, result>>
       \/ TurnDetectText_load_raises
       \/ /\ manager' = manager
          /\ own' = own
          /\ Abort("interrupt")
    /\ UNCHANGED <<mode, auxVars, call, ncalls, raceVars, webVars>>

\* self.manager.unload_text_emotion()
TurnUnloadTextEmotion ==
    /\ mode = "cli"
    /\ pc = "unload_text_emotion"
    /\ manager' = unload_text_emotion(manager).m
    /\ pc' = "fuse"
    /\ UNCHANGED <<mode, auxVars, call, ncalls, turn, conversation_history, emotion_history,
                   frame, result, own, ghost, raceVars, webVars>>

\* emotion_context = self.fusion.fuse(...); augmented_prompt = ...;
\* messages = [system] + conversation_history + [user]
TurnFuse ==
    /\ mode = "cli"
    /\ pc = "fuse"
    /\ frame' = [frame EXCEPT
                   !.emotion_context = FusedOf(frame.speech_emo, frame.text_emo),
                   !.messages = <<Message("system", "prompt")>> \o conversation_history
                                  \o <<Message("user", frame.user_text)>>]
    /\ ghost' = [ghost EXCEPT !.invoked = @ \cup {"fuse"}]
    /\ pc' = "generate"
    /\ UNCHANGED <<mode, auxVars, mgrVars, turn, conversation_history, emotion_history,
                   result, own, raceVars, webVars>>

\* response = generate_response_core(self.manager.llm_model, ...): no handler
\* inside, so an Exception or an interrupt reaches process_turn's handlers.
TurnGenerate ==
    /\ mode = "cli"
    /\ pc = "generate"
    /\ \/ \E response \in Responses :
            /\ frame' = [frame EXCEPT !.response = response]
            /\ ghost' = [ghost EXCEPT !.invoked = @ \cup {"llm"},
                                      !.atLLM = LoadedTransients(manager)]
            /\ pc' = "load_tts"
            /\ UNCHANGED <<turn, conversation_history, emotion_history, result>>
       \/ \E fault \in {"error", "interrupt"} :
            /\ pc' = "returned"
            /\ ghost' = [ghost EXCEPT !.invoked = @ \cup {"llm"},
                                      !.atLLM = LoadedTransients(manager),
                                      !.exit = fault,
                                      !.at = pc,
                                      !.leaked = LoadedTransients(manager)]
            /\ UNCHANGED <<turn, conversation_history, emotion_history, frame, result>>
    /\ UNCHANGED <<mode, auxVars, mgrVars, own, raceVars, webVars>>

\* self.manager.load_tts()
TurnLoadTts ==
    /\ mode = "cli"
    /\ pc = "load_tts"
    /\ \E fault \in FaultsOf("load_tts") :
         LET r == load_tts(manager, fault) IN
           /\ manager' = r.m
           /\ IF r.raised = "none"
              THEN /\ pc' = "synthesize"
                   /\ UNCHANGED <<turn, conversation_history, emotion_history,
                                  frame, result, ghost>>
              ELSE Abort(r.raised)
    /\ UNCHANGED <<mode, auxVars, call, ncalls, own, raceVars, webVars>>

\* audio_response = self.tts.synthesize(response, emotion_context): the
\* pipeline's own EmotionalTTS loads on first use, outside the try block (a
\* load failure raises); a synthesis Exception yields an empty array.
TurnSynthesize ==
    /\ mode = "cli"
    /\ pc = "synthesize"
    /\ \/ \E audio \in {"speech", "empty"} :
            /\ frame' = [frame EXCEPT !.audio_response = audio]
            /\ own' = [own EXCEPT !.tts = TRUE]
            /\ ghost' = [ghost EXCEPT !.invoked = @ \cup {"tts"}]
            /\ pc' = "unload_tts"
            /\ UNCHANGED <<manager, turn, conversation_history, emotion_history, result>>
       \/ /\ ~own.tts
          /\ manager' = manager
          /\ own' = own
          /\ Abort("error")
       \/ /\ manager' = manager
          /\ own' = own
          /\ Abort("interrupt")
    /\ UNCHANGED <<mode, auxVars, call, ncalls, raceVars, webVars>>

\* self.manager.unload_tts() and the len(audio_response) == 0 branch.
TurnUnloadTts ==
    /\ mode = "cli"
    /\ pc = "unload_tts"
    /\ manager' = unload_tts(manager).m
    /\ IF frame.audio_response = "empty"
       THEN /\ Return("empty_synth")
            /\ UNCHANGED <<turn, conversation_history, emotion_history, frame, result>>
       ELSE /\ pc' = "play"
            /\ UNCHANGED <<turn, conversation_history, emotion_history, frame,
                           result, ghost>>
    /\ UNCHANGED <<mode, auxVars, call, ncalls, own, raceVars, webVars>>

\* self.audio_io.play_audio(...): catches Exception, not KeyboardInterrupt.
TurnPlay ==
    /\ mode = "cli"
    /\ pc = "play"
    /\ \/ /\ pc' = "update_history"
          /\ UNCHANGED <<manager, turn, conversation_history, emotion_history,
                         frame, result, ghost>>
       \/ /\ manager' = manager
          /\ Abort("interrupt")
    /\ UNCHANGED <<mode, auxVars, call, ncalls, own, raceVars, webVars>>

\* The three appends, result = {..., "success": True}, return result.
TurnUpdateHistory ==
    /\ mode = "cli"
    /\ pc = "update_history"
    /\ conversation_history' = conversation_history
                                 \o <<Message("user", frame.user_text),
                                      Message("assistant", frame.response)>>
    /\ emotion_history' = Append(emotion_history, frame.emotion_context)
    /\ result' = [user_text |-> frame.user_text, emotion |-> frame.emotion_context,
                  response |-> frame.response, success |-> TRUE]
    /\ manager' = manager
    /\ Return("success")
    /\ UNCHANGED <<mode, auxVars, call, ncalls, turn, frame, own, raceVars, webVars>>

process_turn ==
    \/ TurnLoadStt \/ TurnLoadSpeechEmotion \/ TurnRecord \/ TurnTranscribe
    \/ TurnDetectSpeech \/ TurnUnloadListen \/ TurnLoadTextEmotion
    \/ TurnDetectText \/ TurnUnloadTextEmotion \/ TurnFuse \/ TurnGenerate
    \/ TurnLoadTts \/ TurnSynthesize \/ TurnUnloadTts \/ TurnPlay
    \/ TurnUpdateHistory

\* ===================================== "race": two callers, one slot, no lock
\* load_stt_pipeline and unload_stt_pipeline take no lock, so between any two
\* of their statements another thread may run.
Threads == {1, 2}

SeqRange(q) == {q[i] : i \in 1..Len(q)}

\* if self.stt_pipe is None:
RaceLoadCheck(t) ==
    /\ mode = "race"
    /\ tpc[t] = "idle"
    /\ ncalls < MaxRaceCalls
    /\ ncalls' = ncalls + 1
    /\ tpc' = [tpc EXCEPT ![t] = IF manager.handle["stt"] = None
                                 THEN "load_construct" ELSE "idle"]
    /\ UNCHANGED <<mode, auxVars, manager, call, cliVars, tlocal, released, raceError, webVars>>

\* stt = SpeechToText(self.config["models"]["stt"])
RaceLoadConstruct(t) ==
    /\ mode = "race"
    /\ tpc[t] = "load_construct"
    /\ manager' = [manager EXCEPT !.made["stt"] = @ + 1]
    /\ tlocal' = [tlocal EXCEPT ![t] = manager.made["stt"] + 1]
    /\ tpc' = [tpc EXCEPT ![t] = "load_assign"]
    /\ UNCHANGED <<mode, auxVars, call, ncalls, cliVars, released, raceError, webVars>>

\* self.stt_pipe = stt
RaceLoadAssign(t) ==
    /\ mode = "race"
    /\ tpc[t] = "load_assign"
    /\ manager' = [manager EXCEPT !.handle["stt"] = tlocal[t]]
    /\ tpc' = [tpc EXCEPT ![t] = "idle"]
    /\ UNCHANGED <<mode, auxVars, call, ncalls, cliVars, tlocal, released, raceError, webVars>>

\* if self.stt_pipe is not None:
RaceUnloadCheck(t) ==
    /\ mode = "race"
    /\ tpc[t] = "idle"
    /\ ncalls < MaxRaceCalls
    /\ ncalls' = ncalls + 1
    /\ tpc' = [tpc EXCEPT ![t] = IF manager.handle["stt"] # None
                                 THEN "unload_call" ELSE "idle"]
    /\ UNCHANGED <<mode, auxVars, manager, call, cliVars, tlocal, released, raceError, webVars>>

\* self.stt_pipe.unload(): the field is read again; on None the attribute
\* access raises AttributeError.
RaceUnloadCall(t) ==
    /\ mode = "race"
    /\ tpc[t] = "unload_call"
    /\ IF manager.handle["stt"] = None
       THEN /\ raceError' = TRUE
            /\ tpc' = [tpc EXCEPT ![t] = "idle"]
            /\ UNCHANGED <<manager, released>>
       ELSE /\ released' = Append(released, manager.handle["stt"])
            /\ manager' = [manager EXCEPT !.freed["stt"] = @ + 1]
            /\ tpc' = [tpc EXCEPT ![t] = "unload_assign"]
            /\ UNCHANGED raceError
    /\ UNCHANGED <<mode, auxVars, call, ncalls, cliVars, tlocal, webVars>>

\* self.stt_pipe = None
RaceUnloadAssign(t) ==
    /\ mode = "race"
    /\ tpc[t] = "unload_assign"
    /\ manager' = [manager EXCEPT !.handle["stt"] = None]
    /\ tpc' = [tpc EXCEPT ![t] = "idle"]
    /\ UNCHANGED <<mode, auxVars, call, ncalls, cliVars, tlocal, released, raceError, webVars>>

RaceStep ==
    \E t \in Threads :
        \/ RaceLoadCheck(t) \/ RaceLoadConstruct(t) \/ RaceLoadAssign(t)
        \/ RaceUnloadCheck(t) \/ RaceUnloadCall(t) \/ RaceUnloadAssign(t)

\* ============================================================ "web": backend
\* SessionService.sessions maps uuid4 ids to Session objects.  Ids are drawn
\* from a finite pool in which an id is used at most once: state "unused"
\* (never handed out), "live" (a key of the dict) or "deleted".
WsId == "w"

RestIdSeq == <<"a", "b">>

RestIds == SeqRange(RestIdSeq)

SessionIds == {WsId} \cup RestIds

Requests == {1, 2}

Session(state) == [state |-> state, history |-> << >>, emotion_history |-> << >>]

Live(ss) == {id \in SessionIds : ss[id].state = "live"}

HasFreshId(ss) == \E i \in 1..Len(RestIdSeq) : ss[RestIdSeq[i]].state = "unused"

FreshId(ss) ==
    RestIdSeq[CHOOSE i \in 1..Len(RestIdSeq) :
                 /\ ss[RestIdSeq[i]].state = "unused"
                 /\ \A j \in 1..(i - 1) : ss[RestIdSeq[j]].state # "unused"]

\* ModelService before lifespan() has run, while it serves, or after
\* initialize() raised ModelLoadError (failed names the model that did not load).
ServerOff == [state |-> "off", failed |-> NoValue]

ServerStarting == [state |-> "starting", failed |-> NoValue]

\* The loads of ModelService.initialize that raise ModelLoadError, in the
\* order they run: _load_stt, _load_tts, _load_emotion_models
\* (TextEmotionDetector.load; SpeechEmotionDetector.load never raises),
\* _load_llm.  _load_vad catches its Exception and only prints a warning.
StartupLoads == <<"stt", "tts", "text_emotion", "llm">>

\* lifespan(): await model_service.initialize().  The first load that fails
\* raises ModelLoadError, lifespan re-raises it and the application does not
\* start; otherwise the services are created and requests are served.
ModelService_initialize ==
    /\ mode = "web"
    /\ server.state = "starting"
    /\ \/ server' = [state |-> "running", failed |-> NoValue]
       \/ \E i \in 1..Len(StartupLoads) :
            server' = [state |-> "failed", failed |-> StartupLoads[i]]
    /\ UNCHANGED <<mode, mgrVars, cliVars, raceVars, webVars, arg, ret, augmenter, engine, recording>>

Serving == mode = "web" /\ server.state = "running"

\* SessionService.create_session, with the new id as a parameter.
create_session(ss, id) == [ss EXCEPT ![id] = Session("live")]

Entry(role, content, emotion) == [role |-> role, content |-> content, emotion |-> emotion]

add_turn_unchecked(ss, id, user_text, emotion, response) ==
    [ss |-> [ss EXCEPT
               ![id].history = @ \o <<Entry("user", user_text, emotion),
                                      Entry("assistant", response, NoValue)>>,
               ![id].emotion_history = Append(@, emotion)],
     raised |-> "none"]

\* SessionService.add_turn
add_turn(ss, id, user_text, emotion, response) ==
    IF id \notin Live(ss)
    THEN [ss |-> ss, raised |-> "SessionError"]
    ELSE [ss |-> [ss EXCEPT
                    ![id].history = @ \o <<Entry("user", user_text, emotion),
                                           Entry("assistant", response, NoValue)>>,
                    ![id].emotion_history = Append(@, emotion)],
          raised |-> "none"]

\* SessionService.delete_session
delete_session(ss, id) ==
    IF id \in Live(ss)
    THEN [ss EXCEPT ![id] = Session("deleted")]
    ELSE ss

\* SessionService.get_history
get_history(ss, id) ==
    IF id \notin Live(ss)
    THEN [raised |-> "SessionError", value |-> << >>]
    ELSE [raised |-> "none", value |-> ss[id].history]

\* SessionService.export_session: session.to_dict()
export_session(ss, id) ==
    IF id \notin Live(ss)
    THEN [raised |-> "SessionError", value |-> << >>]
    ELSE [raised |-> "none", value |-> ss[id].history \o ss[id].emotion_history]

\* The loop that copies role and content of every history item.
MessagesOf(history) ==
    [i \in 1..Len(history) |-> Message(history[i].role, history[i].content)]

\* ------------------------------------------------------- voice_websocket
WsInit ==
    [pc |-> "receive", audio |-> NoValue, transcript |-> NoValue, emotion |-> NoFused,
     messages |-> << >>, response |-> NoValue, audio_response |-> NoValue,
     events |-> << >>, hist0 |-> << >>, emo0 |-> << >>, invoked |-> {},
     exit |-> NoValue, turns |-> 0, failed |-> {}, at |-> NoValue]

WsOff == [WsInit EXCEPT !.pc = "off"]

WsError_closing(w, kind) ==
    [w EXCEPT !.pc = "closed", !.events = Append(@, "error"), !.exit = kind,
              !.at = w.pc]

\* except ServiceError / except Exception inside the loop: one error message
\* is sent and the loop goes on to the next receive.
WsError(w, kind) ==
    [w EXCEPT !.pc = "receive", !.events = Append(@, "error"), !.exit = kind,
              !.at = w.pc]

\* await websocket.accept(); session_id = main.session_service.create_session()
WsAccept ==
    /\ Serving
    /\ ws.pc = "off"
    /\ ws' = WsInit
    /\ sessions' = create_session(sessions, WsId)
    /\ UNCHANGED <<mode, auxVars, mgrVars, cliVars, raceVars, rest, nreq>>

\* data = await websocket.receive() up to the empty-audio check.  A message
\* without bytes is skipped without any change of state.
WsReceive ==
    /\ Serving
    /\ ws.pc = "receive"
    /\ \/ ws' = [ws EXCEPT !.pc = "closed"]
       \/ /\ ws.turns < MaxTurns
          /\ \E audio \in {"speech", "empty"} :
               LET w == [WsInit EXCEPT
                           !.turns = ws.turns + 1,
                           !.audio = audio,
                           !.hist0 = sessions[WsId].history,
                           !.emo0 = sessions[WsId].emotion_history,
                           !.events = <<"status">>] IN
                 ws' = IF audio = "empty"
                       THEN WsError(w, "empty_audio")
                       ELSE [w EXCEPT !.pc = "transcribe", !.events = Append(@, "status")]
    /\ UNCHANGED <<mode, auxVars, mgrVars, cliVars, raceVars, sessions, rest, nreq>>

\* transcript = await main.stt_service.transcribe(audio_array), the transcript
\* message and the `not transcript` branch.
WsTranscribe ==
    /\ Serving
    /\ ws.pc = "transcribe"
    /\ \/ \E text \in Texts :
            ws' = [ws EXCEPT !.transcript = text, !.pc = "detect",
                             !.events = @ \o <<"transcript", "status">>]
       \/ ws' = WsError([ws EXCEPT !.transcript = "", !.events = Append(@, "transcript")],
                        "empty_transcript")
       \/ ws' = WsError(ws, "error")
    /\ UNCHANGED <<mode, auxVars, mgrVars, cliVars, raceVars, sessions, rest, nreq>>

\* What detect_emotion of a loaded detector can answer: a detected sample, or
\* _neutral_response() after an Exception inside its try block.
SpeechOutcomes == {Sample(l, DetectedConfidence) : l \in SpeechLabels} \cup {speech_neutral_response}

TextOutcomes == {Sample(l, DetectedConfidence) : l \in TextLabels} \cup {text_neutral_response}

\* The detectors whose answer is the neutral response after an Exception
\* (detected samples carry DetectedConfidence).
FailedSources(s, t) ==
    (IF s = speech_neutral_response THEN {"speech"} ELSE {})
        \cup (IF t = text_neutral_response THEN {"text"} ELSE {})

\* EmotionService.detect_emotion_blocking: both detectors (loaded at start-up)
\* and fusion, inside try/except Exception -> EmotionDetectionError.
detect_emotion_blocking(s, t) == FusedOf(s, t)

\* emotion = main.emotion_service.detect_emotion_blocking(audio_array, transcript)
\* and the emotion message; the error branch is an Exception raised outside
\* the detectors' own try blocks.
WsDetectEmotion ==
    /\ Serving
    /\ ws.pc = "detect"
    /\ \/ \E s \in SpeechOutcomes : \E t \in TextOutcomes :
            ws' = [ws EXCEPT !.emotion = detect_emotion_blocking(s, t), !.pc = "build",
                             !.invoked = @ \cup {"fuse"},
                             !.failed = FailedSources(s, t),
                             !.events = @ \o <<"emotion", "status">>]
       \/ ws' = WsError(ws, "error")
    /\ UNCHANGED <<mode, auxVars, mgrVars, cliVars, raceVars, sessions, rest, nreq>>

\* history = main.session_service.get_history(session_id) and the message list.
WsBuildMessages ==
    /\ Serving
    /\ ws.pc = "build"
    /\ ws' = IF WsId \in Live(sessions)
             THEN [ws EXCEPT !.messages = MessagesOf(sessions[WsId].history)
                                            \o <<Message("user", ws.transcript)>>,
                             !.pc = "generate"]
             ELSE WsError(ws, "error")
    /\ UNCHANGED <<mode, auxVars, mgrVars, cliVars, raceVars, sessions, rest, nreq>>

\* response_text = await main.llm_service.generate_response(messages, emotion)
WsGenerate ==
    /\ Serving
    /\ ws.pc = "generate"
    /\ \/ \E response \in Responses :
            ws' = [ws EXCEPT !.response = response, !.pc = "synthesize",
                             !.invoked = @ \cup {"llm"},
                             !.events = @ \o <<"response", "status">>]
       \/ ws' = WsError([ws EXCEPT !.invoked = @ \cup {"llm"}], "error")
    /\ UNCHANGED <<mode, auxVars, mgrVars, cliVars, raceVars, sessions, rest, nreq>>

\* audio_response = await main.tts_service.synthesize(response_text, emotion):
\* an empty result of the model comes back as b"", a failure as TTSError.
WsSynthesize ==
    /\ Serving
    /\ ws.pc = "synthesize"
    /\ \/ \E audio \in {"speech", "empty"} :
            ws' = [ws EXCEPT !.audio_response = audio, !.pc = "save",
                             !.invoked = @ \cup {"tts"}]
       \/ ws' = WsError([ws EXCEPT !.invoked = @ \cup {"tts"}], "error")
    /\ UNCHANGED <<mode, auxVars, mgrVars, cliVars, raceVars, sessions, rest, nreq>>

\* await websocket.send_bytes(audio_response); add_turn(...); "Ready" status.
WsSaveTurn ==
    /\ Serving
    /\ ws.pc = "save"
    /\ LET r == add_turn(sessions, WsId, ws.transcript, ws.emotion, ws.response) IN
         /\ sessions' = r.ss
         /\ ws' = IF r.raised = "none"
                  THEN [ws EXCEPT !.pc = "receive", !.exit = "success",
                                  !.events = @ \o <<"audio", "status">>]
                  ELSE WsError([ws EXCEPT !.events = Append(@, "audio")], "error")
    /\ UNCHANGED <<mode, auxVars, mgrVars, cliVars, raceVars, rest, nreq>>

voice_websocket ==
    \/ WsAccept \/ WsReceive \/ WsTranscribe \/ WsDetectEmotion \/ WsBuildMessages
    \/ WsGenerate \/ WsSynthesize \/ WsSaveTurn

\* ------------------------------------------------------------ rest.py
NoRequest ==
    [pc |-> "idle", sid |-> NoValue, text |-> NoValue, emotion |-> NoFused,
     messages |-> << >>, overlap |-> {}, status |-> 0]

\* Requests of the same session that have entered text_chat and have neither
\* saved their turn nor failed.
InFlight(sid, r) == {q \in Requests \ {r} : rest[q].pc = "await_llm" /\ rest[q].sid = sid}

\* text_chat up to `await main.llm_service.generate_response`: session lookup
\* or creation, detect_emotion_blocking, get_history and the message list run
\* without an await in between.  REST clients name sessions of their own:
\* the id of a WebSocket session is never sent to a client.
TextChatStart(r) ==
    /\ Serving
    /\ rest[r].pc \in {"idle", "done"}
    /\ nreq < MaxRequests
    /\ nreq' = nreq + 1
    /\ \E named \in RestIds \cup {NoValue} : \E text \in Texts :
       \E detect \in TextOutcomes : \E raised \in BOOLEAN :
         LET req == [NoRequest EXCEPT !.sid = named, !.text = text] IN
         IF named # NoValue /\ named \notin Live(sessions)
         THEN /\ rest' = [rest EXCEPT ![r] = [req EXCEPT !.pc = "done", !.status = 404]]
              /\ sessions' = sessions
         ELSE /\ named = NoValue => HasFreshId(sessions)
              /\ LET sid == IF named = NoValue THEN FreshId(sessions) ELSE named
                     ss  == IF named = NoValue THEN create_session(sessions, sid)
                            ELSE sessions IN
                   /\ sessions' = ss
                   /\ rest' = [rest EXCEPT ![r] =
                        IF raised
                        THEN [req EXCEPT !.sid = sid, !.pc = "done", !.status = 500]
                        ELSE [req EXCEPT
                                !.sid = sid,
                                !.emotion = detect_emotion_blocking(
                                                speech_neutral_response, detect),
                                !.messages = MessagesOf(ss[sid].history)
                                               \o <<Message("user", text)>>,
                                !.overlap = InFlight(sid, r),
                                !.pc = "await_llm"]]
    /\ UNCHANGED <<mode, auxVars, mgrVars, cliVars, raceVars, ws>>

\* The rest of text_chat once generate_response has finished: add_turn and
\* the reply, or the 404 / 500 of the except clauses.
TextChatFinish(r) ==
    /\ Serving
    /\ rest[r].pc = "await_llm"
    /\ \/ \E response \in Responses :
            LET a == add_turn(sessions, rest[r].sid, rest[r].text,
                              rest[r].emotion, response) IN
              /\ sessions' = a.ss
              /\ rest' = [rest EXCEPT ![r].pc = "done",
                                      ![r].status = IF a.raised = "none" THEN 200 ELSE 404]
       \/ /\ sessions' = sessions
          /\ rest' = [rest EXCEPT ![r].pc = "done", ![r].status = 500]
    /\ UNCHANGED <<mode, auxVars, mgrVars, cliVars, raceVars, ws, nreq>>

\* POST /sessions
RestCreateSession ==
    /\ Serving
    /\ nreq < MaxRequests
    /\ HasFreshId(sessions)
    /\ sessions' = create_session(sessions, FreshId(sessions))
    /\ nreq' = nreq + 1
    /\ UNCHANGED <<mode, auxVars, mgrVars, cliVars, raceVars, ws, rest>>

\* DELETE /sessions/{session_id}
RestDeleteSession ==
    /\ Serving
    /\ nreq < MaxRequests
    /\ \E sid \in RestIds :
         /\ sid \in Live(sessions)
         /\ sessions' = delete_session(sessions, sid)
    /\ nreq' = nreq + 1
    /\ UNCHANGED <<mode, auxVars, mgrVars, cliVars, raceVars, ws, rest>>

RestStep ==
    \/ \E r \in Requests : TextChatStart(r) \/ TextChatFinish(r)
    \/ RestCreateSession
    \/ RestDeleteSession

\* ===================================================== "fusion": EmotionFusion
\* Scores, confidences and weights are written in tenths (8 is 0.8), so a
\* combined score, the product of a weight and a score, is in hundredths
\* (64 is 0.64).  source_agreement, a cosine similarity, is not modelled.
EMOTION_CATEGORIES ==
    <<"anger", "disgust", "fear", "joy", "neutral", "sadness", "surprise", "confusion">>

Categories == SeqRange(EMOTION_CATEGORIES)

CategoryIndex(cat) == CHOOSE i \in 1..Len(EMOTION_CATEGORIES) : EMOTION_CATEGORIES[i] = cat

\* Keys of the scores dicts given to fuse, in the order the dict holds them:
\* a category as the detectors write it, one in another case, one that is
\* no category.
RawKeys == <<"anger", "Neutral", "bogus">>

\* The order in which a dict holds its keys: RawKeys first, then the
\* categories the detectors write in lower case.
KeyOrder ==
    RawKeys \o <<"disgust", "fear", "joy", "neutral", "sadness", "surprise", "confusion">>

RawKeyIndex(k) == CHOOSE i \in 1..Len(KeyOrder) : KeyOrder[i] = k

ScoreValues == {2, 8}

\* A scores dict: a function from the keys it holds to their scores.
ScoreDicts ==
    UNION {[ks -> ScoreValues] : ks \in SUBSET SeqRange(RawKeys)}

\* str(x).lower() on the keys and labels in use.
Lower(k) ==
    CASE k = "Neutral" -> "neutral"
      [] k = "Anger"   -> "anger"
      [] OTHER         -> k

SpeechSamples ==
    {[emotion |-> e, confidence |-> c, scores |-> d] :
        e \in {"anger", "Neutral"}, c \in {7, 8}, d \in ScoreDicts}

TextSamples ==
    {[emotion |-> e, confidence |-> c, scores |-> d] :
        e \in {"Anger", "neutral"}, c \in {2, 8}, d \in ScoreDicts}

\* EmotionFusion.__init__: speech_weight, text_weight, conflict_resolution.
\* A strategy that is neither speech_dominant nor averaging takes the
\* else branch of fuse.
FusionConfigs ==
    {[speech_weight |-> w[1], text_weight |-> w[2], conflict_strategy |-> p] :
        w \in {<<6, 4>>, <<10, 5>>},
        p \in {"speech_dominant", "averaging", "consensus"}}

normalize_scores_case_sensitive(scores) ==
    [cat \in Categories |-> IF cat \in DOMAIN scores THEN scores[cat] ELSE 0]

\* _normalize_scores: every category starts at 0.0; the keys are visited in
\* the order of the dict and a key whose lower case is a category overwrites
\* that category, so the last such key wins; other keys are skipped.
normalize_scores(scores) ==
    [cat \in Categories |->
        LET ks == {k \in DOMAIN scores : Lower(k) = cat} IN
          IF ks = {} THEN 0
          ELSE scores[CHOOSE k \in ks : \A j \in ks : RawKeyIndex(j) <= RawKeyIndex(k)]]

speech_dominant_alpha_at_threshold(speech_conf, speech_weight) ==
    IF speech_conf >= 7 THEN 8 ELSE speech_weight

\* _speech_dominant_fusion: alpha
speech_dominant_alpha(speech_conf, speech_weight) ==
    IF speech_conf > 7 THEN 8 ELSE speech_weight

\* _speech_dominant_fusion
speech_dominant_fusion(config, speech_emotion, text_emotion, speech_scores, text_scores) ==
    LET alpha == speech_dominant_alpha(speech_emotion.confidence, config.speech_weight) IN
      [cat \in Categories |-> alpha * speech_scores[cat] + (10 - alpha) * text_scores[cat]]

\* _averaging_fusion
averaging_fusion(config, speech_scores, text_scores) ==
    [cat \in Categories |->
        config.speech_weight * speech_scores[cat] + config.text_weight * text_scores[cat]]

consensus_fusion_partial_credit(config, speech_emotion, text_emotion, speech_scores, text_scores) ==
    averaging_fusion(config, speech_scores, text_scores)

\* _consensus_fusion
consensus_fusion(config, speech_emotion, text_emotion, speech_scores, text_scores) ==
    IF Lower(speech_emotion.emotion) = Lower(text_emotion.emotion)
    THEN averaging_fusion(config, speech_scores, text_scores)
    ELSE [cat \in Categories |-> IF cat = "neutral" THEN 100 ELSE 0]

Before_ties_reversed(combined, a, b) ==
    \/ combined[a] > combined[b]
    \/ combined[a] = combined[b] /\ CategoryIndex(a) > CategoryIndex(b)

\* sorted(combined.items(), key=lambda x: x[1], reverse=True): the sort is
\* stable, so items of equal value keep the order of EMOTION_CATEGORIES, in
\* which every fusion builds `combined`.  Before(combined, a, b): a stands
\* before b in the sorted list.
Before(combined, a, b) ==
    \/ combined[a] > combined[b]
    \/ combined[a] = combined[b] /\ CategoryIndex(a) < CategoryIndex(b)

\* sorted_emotions[n - 1]
SortedAt(combined, n) ==
    CHOOSE c \in DOMAIN combined :
        Cardinality({d \in DOMAIN combined : Before(combined, d, c)}) = n - 1

fuse_secondary_inclusive(config, speech_emotion, text_emotion) ==
    LET speech_scores == normalize_scores(speech_emotion.scores)
        text_scores   == normalize_scores(text_emotion.scores)
        combined ==
            IF config.conflict_strategy = "speech_dominant"
            THEN speech_dominant_fusion(config, speech_emotion, text_emotion,
                                        speech_scores, text_scores)
            ELSE IF config.conflict_strategy = "averaging"
            THEN averaging_fusion(config, speech_scores, text_scores)
            ELSE consensus_fusion(config, speech_emotion, text_emotion,
                                  speech_scores, text_scores)
        primary   == SortedAt(combined, 1)
        second    == SortedAt(combined, 2)
    IN  [primary_emotion   |-> primary,
         confidence        |-> combined[primary],
         secondary_emotion |-> IF combined[second] >= 20 THEN second ELSE NoValue,
         combined_scores   |-> combined,
         fusion_method     |-> config.conflict_strategy]

\* EmotionFusion.fuse
fuse(config, speech_emotion, text_emotion) ==
    LET speech_scores == normalize_scores(speech_emotion.scores)
        text_scores   == normalize_scores(text_emotion.scores)
        combined ==
            IF config.conflict_strategy = "speech_dominant"
            THEN speech_dominant_fusion(config, speech_emotion, text_emotion,
                                        speech_scores, text_scores)
            ELSE IF config.conflict_strategy = "averaging"
            THEN averaging_fusion(config, speech_scores, text_scores)
            ELSE consensus_fusion(config, speech_emotion, text_emotion,
                                  speech_scores, text_scores)
        primary   == SortedAt(combined, 1)
        second    == SortedAt(combined, 2)
    IN  [primary_emotion   |-> primary,
         confidence        |-> combined[primary],
         secondary_emotion |-> IF combined[second] > 20 THEN second ELSE NoValue,
         combined_scores   |-> combined,
         fusion_method     |-> config.conflict_strategy]

\* No call / no result, in the entry points that make no such call.
NoArg == [fn |-> NoValue]

NoRet == [done |-> FALSE]

FuseArgs ==
    {[fn |-> "fuse", config |-> c, speech |-> sp, text |-> tx] :
        c \in FusionConfigs, sp \in SpeechSamples, tx \in TextSamples}

\* One call self.fusion.fuse(speech_emo, text_emo).
Fuse ==
    /\ mode = "fusion"
    /\ ~ret.done
    /\ ret' = [done |-> TRUE, value |-> fuse(arg.config, arg.speech, arg.text)]
    /\ UNCHANGED <<mode, recording, server, arg, augmenter, engine, mgrVars, cliVars, raceVars, webVars>>

\* ================================================== "augment": PromptAugmenter
\* A Python string is a sequence of pieces of text; a piece is either white
\* space or text without white space at its ends.  The length of a string
\* is counted in pieces.
WhitespacePieces == {" ", "\n"}

RECURSIVE lstrip(_)
lstrip(str) ==
    IF str # << >> /\ Head(str) \in WhitespacePieces THEN lstrip(Tail(str)) ELSE str

RECURSIVE rstrip(_)
rstrip(str) ==
    IF str # << >> /\ str[Len(str)] \in WhitespacePieces
    THEN rstrip(SubSeq(str, 1, Len(str) - 1)) ELSE str

\* str.strip()
strip(str) == rstrip(lstrip(str))

\* dict.get(key, default)
DictGet(d, key, default) == IF key \in DOMAIN d THEN d[key] ELSE default

EmptyDict == [k \in {} |-> << >>]

\* _get_default_configs()["emotions"]
DefaultEmotions ==
    [e \in {"anger", "sadness", "fear", "joy", "neutral"} |->
        CASE e = "anger" ->
               [prompt_addition |-> <<"The user is expressing anger or frustration.", " ",
                                      "Acknowledge their frustration directly without dismissing it.">>,
                tts_description |-> <<"A calm, steady voice that is grounding">>]
          [] e = "sadness" ->
               [prompt_addition |-> <<"The user is experiencing sadness.", " ",
                                      "Show genuine understanding of their pain. Be gentle.">>,
                tts_description |-> <<"A warm, gentle voice with compassion">>]
          [] e = "fear" ->
               [prompt_addition |-> <<"The user is expressing fear or anxiety.", " ",
                                      "Ground them in reality and help them identify what they can control.">>,
                tts_description |-> <<"A calm, reassuring voice that is stable">>]
          [] e = "joy" ->
               [prompt_addition |-> <<"The user seems happy or excited.", " ",
                                      "Engage warmly while deepening their reflection.">>,
                tts_description |-> <<"A warm, engaged voice with enthusiasm">>]
          [] OTHER ->
               [prompt_addition |-> << >>,
                tts_description |-> <<"A calm, thoughtful voice speaks clearly">>]]

\* An emotions table as emotion_prompts.yaml may hold it: an addition with
\* white space around it, one of white space only, an entry without
\* prompt_addition.
CustomEmotions ==
    [e \in {"anger", "joy", "fear"} |->
        CASE e = "anger" -> [prompt_addition |-> <<" ", "Stay calm.", "\n">>]
          [] e = "joy"   -> [prompt_addition |-> <<" ", "\n">>]
          [] OTHER       -> [tts_description |-> <<"A calm voice">>]]

EmotionTables == {DefaultEmotions, CustomEmotions}

BasePrompts == {<< >>, <<"You are ClarityMentor.">>}

\* emotion_context: the fields of a FusedEmotion that are read; confidence
\* in hundredths, as fuse returns it.
EmotionContexts ==
    {[primary_emotion |-> e, confidence |-> c] :
        e \in {"anger", "joy", "fear", "neutral", "confusion"},
        c \in {0, 49, 50, 51, 100}}

NotConfident_inclusive(confidence) == confidence <= 50

\* if confidence < 0.5:
NotConfident(confidence) == confidence < 50

\* The f-string of augment_system_prompt around {base_prompt} and {addition}.
EmotionContextHeader == <<"\n", "\n", "---", "\n", "\n", "EMOTION CONTEXT:", "\n">>

EmotionContextFooter == <<"\n", "\n", "---", "\n">>

\* PromptAugmenter.augment_system_prompt
augment_system_prompt(emotions_config, base_prompt, emotion_context) ==
    IF NotConfident(emotion_context.confidence)
    THEN base_prompt
    ELSE LET emotion_config == DictGet(emotions_config, emotion_context.primary_emotion,
                                       EmptyDict)
             addition == DictGet(emotion_config, "prompt_addition", << >>) IN
           IF addition = << >> \/ Len(strip(addition)) = 0
           THEN base_prompt
           ELSE base_prompt \o EmotionContextHeader \o addition \o EmotionContextFooter

AugmentArgs ==
    {[fn |-> "augment_system_prompt", emotions |-> t, base_prompt |-> b,
      emotion_context |-> e] :
        t \in EmotionTables, b \in BasePrompts, e \in EmotionContexts}

\* One call self.augmenter.augment_system_prompt(base_prompt, emotion_context).
Augment ==
    /\ mode = "augment"
    /\ ~ret.done
    /\ ret' = [done |-> TRUE,
               value |-> augment_system_prompt(arg.emotions, arg.base_prompt,
                                               arg.emotion_context)]
    /\ UNCHANGED <<mode, recording, server, arg, augmenter, engine, mgrVars, cliVars, raceVars, webVars>>

\* ============================================ "config": PromptAugmenter object
\* What yaml.safe_load gives for an empty document or an empty value.
Null == [null |-> TRUE]

DefaultVoiceDescription == <<"A calm, thoughtful voice speaks clearly with measured pace">>

\* PromptAugmenter.get_voice_description, the emotions table being a mapping
\* of mappings.
get_voice_description(emotions_config, emotion_context) ==
    LET emotion == IF emotion_context.confidence < 50 THEN "neutral"
                   ELSE emotion_context.primary_emotion
        emotion_config == DictGet(emotions_config, emotion, EmptyDict) IN
      DictGet(emotion_config, "tts_description", DefaultVoiceDescription)

\* _get_default_configs()
DefaultConfigs ==
    [emotions   |-> DefaultEmotions,
     thresholds |-> [high_confidence |-> 70, low_confidence |-> 30],
     fusion     |-> [speech_weight |-> 6, text_weight |-> 4,
                     conflict_resolution |-> "speech_dominant"]]

\* An emotions table with `anger:` left without a value.
NullEntryEmotions ==
    [e \in {"anger", "neutral"} |->
        IF e = "anger" THEN Null
        ELSE [prompt_addition |-> << >>, tts_description |-> <<"A calm voice">>]]

\* What yaml.safe_load returns for the documents considered: an empty
\* document, `{}`, a document without `emotions`, complete ones, one with a
\* null entry, one with `emotions:` left without a value.
ParsedConfigs ==
    {Null,
     EmptyDict,
     [thresholds |-> [high_confidence |-> 70]],
     DefaultConfigs,
     [emotions |-> CustomEmotions],
     [emotions |-> NullEntryEmotions],
     [emotions |-> Null]}

\* The configuration file as open() and yaml.safe_load find it.
ConfigFiles ==
    {[state |-> st, value |-> Null] : st \in {"missing", "unreadable", "malformed"}}
        \cup {[state |-> "parsed", value |-> v] : v \in ParsedConfigs}

\* PromptAugmenter._load_emotion_config: FileNotFoundError and every other
\* Exception of open / safe_load give the defaults; a parsed document is
\* returned as it is.
load_emotion_config(file) ==
    IF file.state = "parsed" THEN file.value ELSE DefaultConfigs

NoAugmenter == [built |-> FALSE, emotion_configs |-> Null]

ReturnedValue(v) == [done |-> TRUE, raised |-> FALSE, value |-> v]

\* `.get` on None: AttributeError.
AttributeError == [done |-> TRUE, raised |-> TRUE, value |-> << >>]

\* augment_system_prompt on the object: every `.get` needs a mapping.
PromptAugmenter_augment_system_prompt(self, base_prompt, emotion_context) ==
    IF self.emotion_configs = Null THEN AttributeError
    ELSE IF DictGet(self.emotion_configs, "thresholds", EmptyDict) = Null THEN AttributeError
    ELSE IF NotConfident(emotion_context.confidence) THEN ReturnedValue(base_prompt)
    ELSE LET emotions_config == DictGet(self.emotion_configs, "emotions", EmptyDict) IN
           IF emotions_config = Null THEN AttributeError
           ELSE IF DictGet(emotions_config, emotion_context.primary_emotion,
                           EmptyDict) = Null
           THEN AttributeError
           ELSE ReturnedValue(augment_system_prompt(emotions_config, base_prompt,
                                               emotion_context))

\* get_voice_description on the object.
PromptAugmenter_get_voice_description(self, emotion_context) ==
    IF self.emotion_configs = Null THEN AttributeError
    ELSE LET emotion == IF emotion_context.confidence < 50 THEN "neutral"
                        ELSE emotion_context.primary_emotion
             emotions_config == DictGet(self.emotion_configs, "emotions", EmptyDict) IN
           IF emotions_config = Null THEN AttributeError
           ELSE IF DictGet(emotions_config, emotion, EmptyDict) = Null THEN AttributeError
           ELSE ReturnedValue(get_voice_description(emotions_config, emotion_context))

ConfigArgs ==
    {[fn |-> "augment_system_prompt", file |-> f, base_prompt |-> b,
      emotion_context |-> e] :
        f \in ConfigFiles, b \in BasePrompts, e \in EmotionContexts}
    \cup
    {[fn |-> "get_voice_description", file |-> f, base_prompt |-> << >>,
      emotion_context |-> e] :
        f \in ConfigFiles, e \in EmotionContexts}

\* PromptAugmenter.__init__
PromptAugmenter_init ==
    /\ mode = "config"
    /\ ~augmenter.built
    /\ augmenter' = [built |-> TRUE, emotion_configs |-> load_emotion_config(arg.file)]
    /\ UNCHANGED <<mode, recording, server, arg, ret, engine, mgrVars, cliVars, raceVars, webVars>>

\* One call on the constructed object.
PromptAugmenter_call ==
    /\ mode = "config"
    /\ augmenter.built
    /\ ~ret.done
    /\ ret' = IF arg.fn = "augment_system_prompt"
              THEN PromptAugmenter_augment_system_prompt(augmenter, arg.base_prompt,
                                                         arg.emotion_context)
              ELSE PromptAugmenter_get_voice_description(augmenter, arg.emotion_context)
    /\ UNCHANGED <<mode, recording, server, arg, augmenter, engine, mgrVars, cliVars, raceVars, webVars>>

\* ================================================== "speak": EmotionalTTS
\* config.get("voice_description", "A calm, thoughtful male voice speaks clearly")
DefaultVoiceDescs ==
    {<<"A calm, thoughtful male voice speaks clearly">>,
     <<"A calm, thoughtful voice speaks clearly">>}

\* emotion_voices of EmotionalTTS._get_voice_description
emotion_voices ==
    [e \in {"anger", "sadness", "fear", "joy", "confused", "neutral", "surprise",
            "disgust"} |->
        CASE e = "anger"    -> <<"A calm, steady voice that is grounding and measured">>
          [] e = "sadness"  -> <<"A warm, gentle voice with compassion and understanding">>
          [] e = "fear"     -> <<"A calm, reassuring voice that is stable and clear">>
          [] e = "joy"      -> <<"A warm, engaged voice with subtle enthusiasm">>
          [] e = "confused" -> <<"A clear, patient voice that explains things carefully">>
          [] e = "neutral"  -> <<"A calm, thoughtful voice speaks clearly with measured pace">>
          [] e = "surprise" -> <<"An engaged, clear voice with natural dynamics">>
          [] OTHER          -> <<"A balanced, non-judgmental voice with steady pace">>]

\* EmotionalTTS._get_voice_description (emotion_context is never None in
\* process_turn)
EmotionalTTS_get_voice_description(default_voice_desc, emotion_context) ==
    IF emotion_context.confidence < 50 THEN default_voice_desc
    ELSE DictGet(emotion_voices, emotion_context.primary_emotion, default_voice_desc)

\* Fused emotions: every category, confidence in hundredths.
FusedContexts ==
    {[primary_emotion |-> e, confidence |-> c] :
        e \in Categories, c \in {0, 49, 50, 51, 100}}

\* self.tts.synthesize(response, emotion_context) of process_turn, with the
\* pipeline's PromptAugmenter holding the emotions table `emotions`.
SpeakArgs ==
    {[fn |-> "synthesize", emotions |-> t, default_voice_desc |-> d,
      fallback |-> f, emotion_context |-> e] :
        t \in EmotionTables, d \in DefaultVoiceDescs, f \in BOOLEAN,
        e \in FusedContexts}

\* EmotionalTTS.synthesize up to the description string: the pyttsx3
\* fallback speaks the text without any description, the Parler model gets
\* f"{voice_desc}: {text}".
Synthesize ==
    /\ mode = "speak"
    /\ ~ret.done
    /\ ret' = [done |-> TRUE,
               conditioned |-> ~arg.fallback,
               value |-> IF arg.fallback THEN << >>
                         ELSE EmotionalTTS_get_voice_description(arg.default_voice_desc,
                                                                 arg.emotion_context)]
    /\ UNCHANGED <<mode, recording, server, arg, augmenter, engine, mgrVars, cliVars, raceVars, webVars>>

\* ===================================================== "llm": LLMService
\* emotion_prompts as backend/config.py loads it (`{}` when the file is
\* missing or empty); thresholds in hundredths.
EmotionPrompts ==
    {EmptyDict,
     [emotions |-> CustomEmotions],
     [emotions |-> DefaultEmotions, thresholds |-> [high_confidence |-> 70]],
     [emotions |-> DefaultEmotions, thresholds |-> [high_confidence |-> 50]]}

LlmContexts ==
    {[primary_emotion |-> e, confidence |-> c] :
        e \in {"anger", "joy", "fear", "neutral", "confusion"},
        c \in {0, 49, 50, 69, 70, 100}}

\* LLMService._augment_system_prompt
LLMService_augment_system_prompt(emotion_prompts, system_prompt, emotion) ==
    LET threshold == DictGet(DictGet(emotion_prompts, "thresholds", EmptyDict),
                             "high_confidence", 70)
        emotions  == DictGet(emotion_prompts, "emotions", EmptyDict) IN
      IF emotion.confidence >= threshold /\ emotion.primary_emotion \in DOMAIN emotions
      THEN LET emotion_config  == emotions[emotion.primary_emotion]
               prompt_addition == DictGet(emotion_config, "prompt_addition", << >>) IN
             system_prompt \o <<"\n", "\n">> \o prompt_addition
      ELSE system_prompt

LlmArgs ==
    {[fn |-> "_augment_system_prompt", emotion_prompts |-> c, system_prompt |-> b,
      emotion |-> e] :
        c \in EmotionPrompts, b \in BasePrompts, e \in LlmContexts}

\* augmented_prompt = self._augment_system_prompt(emotion)
LlmAugment ==
    /\ mode = "llm"
    /\ ~ret.done
    /\ ret' = [done |-> TRUE,
               value |-> LLMService_augment_system_prompt(arg.emotion_prompts,
                                                          arg.system_prompt, arg.emotion)]
    /\ UNCHANGED <<mode, recording, server, arg, augmenter, engine, mgrVars, cliVars, raceVars, webVars>>

\* ============================================ "engine": ModelService's fusion
\* The fusion section of emotion_prompts.yaml.
FusionSections ==
    {[speech_weight |-> c.speech_weight, text_weight |-> c.text_weight,
      conflict_resolution |-> c.conflict_strategy] : c \in FusionConfigs}

\* backend.config.emotion_prompts, with and without a fusion section.
BackendEmotionPrompts == {[fusion |-> f] : f \in FusionSections} \cup {EmptyDict}

EmotionFusion_init_flat(config) ==
    [speech_weight     |-> DictGet(config, "speech_weight", 6),
     text_weight       |-> DictGet(config, "text_weight", 4),
     conflict_strategy |-> DictGet(config, "conflict_resolution", "speech_dominant")]

\* EmotionFusion.__init__(config): reads config["fusion"].
EmotionFusion_init(config) ==
    LET fusion_config == DictGet(config, "fusion", EmptyDict) IN
      [speech_weight     |-> DictGet(fusion_config, "speech_weight", 6),
       text_weight       |-> DictGet(fusion_config, "text_weight", 4),
       conflict_strategy |-> DictGet(fusion_config, "conflict_resolution",
                                     "speech_dominant")]

NoEngine == [built |-> FALSE]

EngineSpeechSamples ==
    {sp \in SpeechSamples : sp.confidence = 7 /\ DOMAIN sp.scores = {"anger", "Neutral"}}

EngineTextSamples ==
    {tx \in TextSamples : tx.confidence = 8 /\ DOMAIN tx.scores = {"anger", "Neutral"}}

EngineArgs ==
    {[fn |-> "fuse", emotion_prompts |-> ep, speech |-> sp, text |-> tx] :
        ep \in BackendEmotionPrompts, sp \in EngineSpeechSamples,
        tx \in EngineTextSamples}

\* ModelService._load_emotion_models:
\*   fusion_config = emotion_prompts.get("fusion", {})
\*   self._models["emotion_fusion"] = EmotionFusion(fusion_config)
ModelService_load_fusion ==
    /\ mode \in {"engine", "textchat"}
    /\ ~engine.built
    /\ LET fusion_config == DictGet(arg.emotion_prompts, "fusion", EmptyDict) IN
         engine' = [built |-> TRUE, config |-> EmotionFusion_init(fusion_config)]
    /\ UNCHANGED <<mode, recording, server, arg, ret, augmenter, mgrVars, cliVars, raceVars, webVars>>

\* EmotionService: self.fusion.fuse(speech_emotion, text_emotion) on the
\* engine ModelService built.
EngineFuse ==
    /\ mode = "engine"
    /\ engine.built
    /\ ~ret.done
    /\ ret' = [done |-> TRUE, value |-> fuse(engine.config, arg.speech, arg.text)]
    /\ UNCHANGED <<mode, recording, server, arg, augmenter, engine, mgrVars, cliVars, raceVars, webVars>>

\* ================================================= "textchat": the numbers
\* SpeechEmotionDetector._neutral_response(): what detect_emotion returns
\* for empty audio.
speech_neutral_scores ==
    [emotion |-> "neutral", confidence |-> 5, scores |-> [e \in Categories |-> 0]]

TextLabelsScored == {"anger", "disgust", "fear", "joy", "neutral", "sadness", "surprise"}

\* TextEmotionDetector._neutral_response()
text_neutral_scores ==
    [emotion |-> "neutral", confidence |-> 5,
     scores |-> [e \in TextLabelsScored |->
                    IF e = "neutral" THEN 8 ELSE IF e \in {"joy", "sadness"} THEN 1 ELSE 0]]

\* TextEmotionDetector.detect_emotion: the top label, its score, and the
\* scores of all labels (they sum to 1).
TextChatTexts ==
    {[emotion |-> e, confidence |-> c,
      scores |-> [k \in TextLabelsScored |->
                     IF k = e THEN c ELSE IF k = "sadness" THEN 10 - c ELSE 0]] :
        e \in {"anger", "joy", "neutral"}, c \in {5, 8, 10}}
    \cup {text_neutral_scores}

\* emotion_prompts of the backend: with or without a fusion section, with
\* or without a high_confidence threshold (in hundredths, above 0.4).
TextChatPrompts ==
    {[emotions |-> DefaultEmotions]}
    \cup {[emotions |-> DefaultEmotions, fusion |-> f] : f \in FusionSections}
    \cup {[emotions |-> DefaultEmotions, fusion |-> f,
           thresholds |-> [high_confidence |-> h]] :
            f \in FusionSections, h \in {41, 50, 70}}

TextChatArgs ==
    {[fn |-> "text_chat", emotion_prompts |-> ep, text |-> tx,
      system_prompt |-> <<"You are ClarityMentor.">>] :
        ep \in TextChatPrompts, tx \in TextChatTexts}

\* text_chat: emotion = detect_emotion_blocking(empty_audio, request.text)
TextChatDetect ==
    /\ mode = "textchat"
    /\ engine.built
    /\ "emotion" \notin DOMAIN ret
    /\ ret' = [done |-> FALSE,
               emotion |-> fuse(engine.config, speech_neutral_scores, arg.text)]
    /\ UNCHANGED <<mode, recording, server, arg, augmenter, engine, mgrVars, cliVars, raceVars, webVars>>

\* text_chat: generate_response(messages, emotion), up to the system prompt
\* the LLM is given.
TextChatAugment ==
    /\ mode = "textchat"
    /\ "emotion" \in DOMAIN ret
    /\ ~ret.done
    /\ ret' = [done |-> TRUE, emotion |-> ret.emotion,
               value |-> LLMService_augment_system_prompt(arg.emotion_prompts,
                                                          arg.system_prompt, ret.emotion)]
    /\ UNCHANGED <<mode, recording, server, arg, augmenter, engine, mgrVars, cliVars, raceVars, webVars>>

\* ============================================== "sessions": SessionService
\* One call of SessionService by any caller, with any session id: one never
\* handed out, a live one or a deleted one.  uuid4 gives create_session an
\* id that was never used.
SessionCall ==
    /\ mode = "sessions"
    /\ nreq < MaxSessionCalls
    /\ nreq' = nreq + 1
    /\ \E id \in SessionIds :
         \/ /\ sessions[id].state = "unused"
            /\ sessions' = create_session(sessions, id)
            /\ ret' = [done |-> TRUE, fn |-> "create_session", sid |-> id,
                       raised |-> "none"]
         \/ \E text \in Texts : \E response \in Responses :
              LET a == add_turn(sessions, id, text, NoFused, response) IN
                /\ sessions' = a.ss
                /\ ret' = [done |-> TRUE, fn |-> "add_turn", sid |-> id,
                           raised |-> a.raised]
         \/ /\ sessions' = sessions
            /\ ret' = [done |-> TRUE, fn |-> "get_history", sid |-> id,
                       raised |-> get_history(sessions, id).raised]
         \/ /\ sessions' = sessions
            /\ ret' = [done |-> TRUE, fn |-> "export_session", sid |-> id,
                       raised |-> export_session(sessions, id).raised]
         \/ /\ sessions' = delete_session(sessions, id)
            /\ ret' = [done |-> TRUE, fn |-> "delete_session", sid |-> id,
                       raised |-> "none"]
    /\ UNCHANGED <<mode, recording, server, arg, augmenter, engine, mgrVars, cliVars, raceVars,
                   ws, rest>>

\* ============================================ "record": record_until_silence
\* Durations are written in tenths of a second; chunk_duration = 0.5.
ChunkDuration == 5

\* max_duration (default 60.0) and vad_detector.min_silence_duration
\* (default 0.8) of the calls considered.
MaxDurations == {10, 12, 30}

MinSilenceDurations == {3, 8, 10, 12}

RecordArgs ==
    {[fn |-> "record_until_silence", max_duration |-> d, min_silence_duration |-> m] :
        d \in MaxDurations, m \in MinSilenceDurations}

\* max_silent_chunks = int(vad_detector.min_silence_duration / chunk_duration)
max_silent_chunks(min_silence_duration) == min_silence_duration \div ChunkDuration

\* The locals at the start of the try statement; audio_chunks is kept as the
\* list of what is_speech said of each chunk.
RecordingInit ==
    [pc |-> "loop", audio_chunks |-> << >>, silent_chunks |-> 0,
     recording_started |-> FALSE, audio |-> << >>, exit |-> "none"]

RecordingOff == [RecordingInit EXCEPT !.pc = "off"]

NextSilentChunks_no_reset(is_speech, recording_started, silent_chunks) ==
    IF ~is_speech /\ recording_started THEN silent_chunks + 1 ELSE silent_chunks

\* if is_speech: silent_chunks = 0  elif recording_started: silent_chunks += 1
NextSilentChunks(is_speech, recording_started, silent_chunks) ==
    IF is_speech THEN 0
    ELSE IF recording_started THEN silent_chunks + 1 ELSE silent_chunks

\* The return after the loop: the concatenated chunks, or an empty array
\* when there is none.
RecordingReturn(rec) ==
    [rec EXCEPT !.pc = "returned", !.audio = rec.audio_chunks, !.exit = "return"]

\* One iteration of the while loop: record_chunk, is_speech, the counters
\* and the break (followed by the return after the loop).  A
\* KeyboardInterrupt during the iteration is caught: empty array, 0.0; an
\* error of sounddevice leaves the function as an exception.
RecordChunk ==
    /\ mode = "record"
    /\ recording.pc = "loop"
    /\ Len(recording.audio_chunks) * ChunkDuration < arg.max_duration
    /\ \/ \E is_speech \in BOOLEAN :
            LET silent  == NextSilentChunks(is_speech, recording.recording_started,
                                            recording.silent_chunks)
                started == recording.recording_started \/ is_speech
                rec     == [recording EXCEPT
                              !.audio_chunks = Append(@, is_speech),
                              !.silent_chunks = silent,
                              !.recording_started = started] IN
              recording' =
                  IF ~is_speech /\ recording.recording_started
                     /\ silent >= max_silent_chunks(arg.min_silence_duration)
                  THEN RecordingReturn(rec)
                  ELSE rec
       \/ recording' = [recording EXCEPT !.pc = "returned", !.audio = << >>,
                                         !.exit = "interrupt"]
       \/ recording' = [recording EXCEPT !.pc = "raised", !.exit = "error"]
    /\ UNCHANGED <<mode, server, arg, ret, augmenter, engine, mgrVars, cliVars, raceVars,
                   webVars>>

\* The loop condition is false: the return after the loop.
RecordFinish ==
    /\ mode = "record"
    /\ recording.pc = "loop"
    /\ ~(Len(recording.audio_chunks) * ChunkDuration < arg.max_duration)
    /\ recording' = RecordingReturn(recording)
    /\ UNCHANGED <<mode, server, arg, ret, augmenter, engine, mgrVars, cliVars, raceVars,
                   webVars>>

\* ================================================================ the system
Init ==
    /\ mode \in Modes
    /\ manager = ManagerInit
    /\ call = NoCall
    /\ ncalls = 0
    /\ pc = IF mode = "cli" THEN "unbuilt" ELSE "off"
    /\ turn = 0
    /\ conversation_history = << >>
    /\ emotion_history = << >>
    /\ frame = NoFrame
    /\ result = EmptyResult
    /\ own = OwnUnbuilt
    /\ ghost = GhostInit
    /\ tpc = [t \in Threads |-> "idle"]
    /\ tlocal = [t \in Threads |-> None]
    /\ released = << >>
    /\ raceError = FALSE
    /\ sessions = [id \in SessionIds |-> Session("unused")]
    /\ ws = WsOff
    /\ rest = [r \in Requests |-> NoRequest]
    /\ nreq = 0
    /\ server = IF mode = "web" THEN ServerStarting ELSE ServerOff
    /\ arg \in IF mode = "fusion" THEN FuseArgs
               ELSE IF mode = "augment" THEN AugmentArgs
               ELSE IF mode = "config" THEN ConfigArgs
               ELSE IF mode = "speak" THEN SpeakArgs
               ELSE IF mode = "llm" THEN LlmArgs
               ELSE IF mode = "engine" THEN EngineArgs
               ELSE IF mode = "textchat" THEN TextChatArgs
               ELSE IF mode = "record" THEN RecordArgs ELSE {NoArg}
    /\ ret = NoRet
    /\ augmenter = NoAugmenter
    /\ engine = NoEngine
    /\ recording = IF mode = "record" THEN RecordingInit ELSE RecordingOff

Next ==
    \/ ManagerCall
    \/ VoiceInferencePipeline_init
    \/ initialize
    \/ StartTurn
    \/ RunInteractiveInterrupted
    \/ process_turn
    \/ RaceStep
    \/ ModelService_initialize
    \/ voice_websocket
    \/ RestStep
    \/ Fuse
    \/ Augment
    \/ PromptAugmenter_init
    \/ PromptAugmenter_call
    \/ Synthesize
    \/ LlmAugment
    \/ ModelService_load_fusion
    \/ EngineFuse
    \/ TextChatDetect
    \/ TextChatAugment
    \/ SessionCall
    \/ RecordChunk
    \/ RecordFinish

Spec == Init /\ [][Next]_vars

\* The entry points taken one at a time.
InitCli == Init /\ mode = "cli"

NextCli ==
    \/ VoiceInferencePipeline_init \/ initialize \/ StartTurn
    \/ RunInteractiveInterrupted \/ process_turn

SpecCli == InitCli /\ [][NextCli]_vars

\* The interpreter keeps running the pipeline's code: a step of the
\* constructor, of initialize, of the loop or of process_turn that can be
\* taken is taken.  Whether a further Ctrl+C arrives is up to the user.
SpecCliLive ==
    /\ InitCli
    /\ [][NextCli]_vars
    /\ WF_vars(VoiceInferencePipeline_init \/ initialize \/ StartTurn \/ process_turn)

InitMgr == Init /\ mode = "mgr"

NextMgr == ManagerCall

SpecMgr == InitMgr /\ [][NextMgr]_vars

InitRace == Init /\ mode = "race"

NextRace == RaceStep

SpecRace == InitRace /\ [][NextRace]_vars

InitWeb == Init /\ mode = "web"

NextWeb == ModelService_initialize \/ voice_websocket \/ RestStep

SpecWeb == InitWeb /\ [][NextWeb]_vars

InitFusion == Init /\ mode = "fusion"

NextFusion == Fuse

SpecFusion == InitFusion /\ [][NextFusion]_vars

InitAugment == Init /\ mode = "augment"

NextAugment == Augment

SpecAugment == InitAugment /\ [][NextAugment]_vars

InitConfig == Init /\ mode = "config"

NextConfig == PromptAugmenter_init \/ PromptAugmenter_call

SpecConfig == InitConfig /\ [][NextConfig]_vars

InitSpeak == Init /\ mode = "speak"

NextSpeak == Synthesize

SpecSpeak == InitSpeak /\ [][NextSpeak]_vars

InitLlm == Init /\ mode = "llm"

NextLlm == LlmAugment

SpecLlm == InitLlm /\ [][NextLlm]_vars

InitEngine == Init /\ mode = "engine"

NextEngine == ModelService_load_fusion \/ EngineFuse

SpecEngine == InitEngine /\ [][NextEngine]_vars

InitTextChat == Init /\ mode = "textchat"

NextTextChat == ModelService_load_fusion \/ TextChatDetect \/ TextChatAugment

SpecTextChat == InitTextChat /\ [][NextTextChat]_vars

\* Every use of SessionService: the handlers of the backend running
\* concurrently, or a caller making any sequence of calls.
InitSessionUse == Init /\ mode \in {"web", "sessions"}

NextSessionUse == NextWeb \/ SessionCall

SpecSessionUse == InitSessionUse /\ [][NextSessionUse]_vars

InitRecord == Init /\ mode = "record"

NextRecord == RecordChunk \/ RecordFinish

SpecRecord == InitRecord /\ [][NextRecord]_vars

\* The function keeps running: an iteration or the return that can be taken
\* is taken (record_chunk blocks for chunk_duration only).
SpecRecordLive == SpecRecord /\ WF_vars(NextRecord)

\* ==================================================================== claims
TransientsOverlap(m) ==
    \/ /\ m.handle["text_emotion"] # None
       /\ \E s \in {"stt", "speech_emotion"} : m.handle[s] # None
    \/ /\ m.handle["tts"] # None
       /\ \E s \in {"stt", "speech_emotion", "text_emotion"} : m.handle[s] # None

CliTurnRecorded ==
    /\ conversation_history = ghost.hist0 \o <<Message("user", frame.user_text),
                                               Message("assistant", frame.response)>>
    /\ emotion_history = Append(ghost.emo0, frame.emotion_context)

CliTurnUntouched ==
    /\ conversation_history = ghost.hist0
    /\ emotion_history = ghost.emo0

WsTurnRecorded ==
    /\ sessions[WsId].history = ws.hist0 \o <<Entry("user", ws.transcript, ws.emotion),
                                              Entry("assistant", ws.response, NoValue)>>
    /\ sessions[WsId].emotion_history = Append(ws.emo0, ws.emotion)

WsTurnUntouched ==
    /\ sessions[WsId].history = ws.hist0
    /\ sessions[WsId].emotion_history = ws.emo0

WsTurnOver == mode = "web" /\ ws.pc = "receive" /\ ws.exit # NoValue

\* C1: after process_turn has returned, by whatever path, none of the
\* transient slots stt, speech_emotion, text_emotion, tts is loaded.
C1_NoTransientAfterTurn ==
    (mode = "cli" /\ pc = "returned") => LoadedTransients(manager) = {}

\* C2: a load call on a loaded slot constructs nothing, raises nothing and
\* leaves the manager as it was; a load call on an unloaded slot starts exactly
\* one construction; an unload call on an unloaded slot calls no model
\* unload, raises nothing and leaves the manager as it was.
C2_LoadUnloadIdempotent ==
    (mode = "mgr" /\ call.op # NoValue) =>
        /\ (call.op \in LoadOps /\ call.before.handle[call.slot] # None) =>
              (manager = call.before /\ call.raised = "none")
        /\ (call.op \in LoadOps /\ call.before.handle[call.slot] = None) =>
              manager.made[call.slot] = call.before.made[call.slot] + 1
        /\ (call.op \in UnloadOps /\ call.before.handle[call.slot] = None) =>
              (manager = call.before /\ call.raised = "none")
        /\ \A s \in Slots : manager.handle[s] # None => manager.handle[s] = manager.made[s]

C2_Witness ==
    /\ mode = "mgr"
    /\ call.op = "load_stt_pipeline"
    /\ call.before.handle["stt"] # None
    /\ call.before.made["stt"] = 1
    /\ manager.made["stt"] = 1

\* C3: a finished turn has either appended exactly its user and assistant
\* messages and its fused emotion, or (aborted: empty audio, empty transcript,
\* empty synthesized audio, raised error) left both histories as they were;
\* for process_turn and for one iteration of the WebSocket loop.
C3_TurnRecordedOrUntouched ==
    /\ (mode = "cli" /\ pc = "returned") =>
          IF result.success THEN CliTurnRecorded ELSE CliTurnUntouched
    /\ WsTurnOver =>
          IF ws.exit = "success" /\ ws.audio_response # "empty"
          THEN WsTurnRecorded ELSE WsTurnUntouched

\* C4: once the audio of a turn is empty or its transcript is the empty
\* string, the histories keep their length and neither fusion, the LLM nor
\* synthesis is invoked in that turn; for process_turn and the WebSocket loop.
C4_EmptyInputLeavesHistory ==
    /\ (mode = "cli" /\ (frame.audio = "empty" \/ frame.user_text = "")) =>
          /\ Len(conversation_history) = Len(ghost.hist0)
          /\ Len(emotion_history) = Len(ghost.emo0)
          /\ ghost.invoked = {}
    /\ (mode = "web" /\ (ws.audio = "empty" \/ ws.transcript = "")) =>
          /\ Len(sessions[WsId].history) = Len(ws.hist0)
          /\ Len(sessions[WsId].emotion_history) = Len(ws.emo0)
          /\ ws.invoked = {}

C4_Witness ==
    /\ mode = "cli"
    /\ pc = "returned"
    /\ frame.user_text = ""
    /\ Len(conversation_history) = 2

\* C5: in every reachable state text_emotion is not loaded together with stt
\* or speech_emotion, and tts is not loaded together with stt, speech_emotion
\* or text_emotion.
C5_NoUnrelatedOverlap ==
    mode = "cli" => ~TransientsOverlap(manager)

\* C6: whenever process_turn is about to invoke, or has invoked, the LLM, the
\* speech_emotion and text_emotion slots are unloaded at that moment, also
\* when an earlier turn left a slot loaded.
C6_EmotionSlotsFreeAtLLM ==
    mode = "cli" =>
        /\ pc = "generate" =>
              /\ manager.handle["speech_emotion"] = None
              /\ manager.handle["text_emotion"] = None
        /\ "llm" \in ghost.invoked =>
              ghost.atLLM \cap {"speech_emotion", "text_emotion"} = {}

C6_Witness ==
    /\ mode = "cli"
    /\ pc = "load_tts"
    /\ "llm" \in ghost.invoked
    /\ ghost.leaked \cap {"speech_emotion", "text_emotion"} # {}

\* C7: a turn ended by KeyboardInterrupt has unloaded every transient slot
\* before process_turn returns and has appended nothing to the histories.
C7_InterruptReleasesSlots ==
    (mode = "cli" /\ pc = "returned" /\ ghost.exit = "interrupt") =>
        /\ LoadedTransients(manager) = {}
        /\ CliTurnUntouched

\* C8: no turn builds its message list from a session's history while an
\* earlier turn of the same session is started and has neither saved its
\* turn nor aborted.
C8_TurnsOfSessionOrdered ==
    mode = "web" => \A r \in Requests : rest[r].overlap = {}

\* C9: concurrent load/unload calls for one slot act as if run one after the
\* other: at most one constructed model is alive, no model has unload()
\* called twice, no call fails on a handle another call cleared, and with no
\* call in progress the slot does not hold an unloaded model.
C9_CallsSerialized ==
    mode = "race" =>
        /\ manager.made["stt"] - Cardinality(SeqRange(released)) <= 1
        /\ \A i, j \in 1..Len(released) : i # j => released[i] # released[j]
        /\ ~raceError
        /\ (\A t \in Threads : tpc[t] = "idle") =>
              manager.handle["stt"] \notin SeqRange(released)

LoadFailed ==
    /\ mode = "mgr"
    /\ call.op \in LoadOps
    /\ call.before.handle[call.slot] = None
    /\ call.fault \in {"error", "post_error"}

OneAttempt == manager.made[call.slot] = call.before.made[call.slot] + 1

C11_PersistentNeverCleared ==
    [][\A s \in PersistentSlots :
          manager.handle[s] # None =>
              /\ manager'.handle[s] = manager.handle[s]
              /\ manager'.made[s] = manager.made[s]]_vars

C11_Witness ==
    /\ mode = "mgr"
    /\ call.op = "load_llm_persistent"
    /\ call.before.handle["llm"] # None
    /\ manager.handle["llm"] = 1
    /\ manager.made["llm"] = 1

\* C12: a failure of the speech or the text detector during a turn does not
\* abort the turn: no turn leaves through `except Exception` at a detection
\* step, and the failing source's sample is the neutral default (label
\* neutral, confidence 0.5) with which the turn goes on to fusion; for
\* process_turn, the WebSocket loop and detect_emotion_blocking, a failing
\* first-use load of a detector included.
C12_DetectorFailureKeepsTurn ==
    /\ mode = "cli" =>
          /\ ~(pc = "returned" /\ ghost.exit = "error"
                 /\ ghost.at \in {"detect_speech", "detect_text"})
          /\ "speech" \in ghost.failed => frame.speech_emo = Sample("neutral", 5)
          /\ "text" \in ghost.failed => frame.text_emo = Sample("neutral", 5)
    /\ mode = "web" =>
          /\ "speech" \in ws.failed =>
                ("fuse" \in ws.invoked /\ ws.emotion.speech = Sample("neutral", 5))
          /\ "text" \in ws.failed =>
                ("fuse" \in ws.invoked /\ ws.emotion.text = Sample("neutral", 5))

\* C13: the process is stopped at start-up only by a persistent model (llm,
\* vad) that failed to load: the CLI never ends, and the backend never fails
\* to start, because a transient model (stt, tts, speech_emotion,
\* text_emotion) could not be constructed or loaded.
C13_OnlyPersistentLoadIsFatal ==
    /\ (mode = "cli" /\ pc = "crashed") => ghost.fatal \in PersistentSlots
    /\ (mode = "web" /\ server.state = "failed") => server.failed \in PersistentSlots

ErrorsSent(events) == Cardinality({i \in 1..Len(events) : events[i] = "error"})

WsTurnAborted == mode = "web" /\ ws.exit \notin {NoValue, "success"}

\* The step in which a WebSocket turn is aborted: the turn in progress gets
\* its exit, or the message just received holds no audio.
WsAbortStep ==
    /\ mode = "web"
    /\ ws'.exit \notin {NoValue, "success"}
    /\ (ws.exit = NoValue \/ ws'.turns = ws.turns + 1)

\* C14: a WebSocket turn aborted by empty audio, an empty transcript or an
\* error of a service has sent exactly one message of type error, as its last
\* message, and has left the session alive with its history as it was; the
\* aborting step returns the handler to the receive of the next message.  In
\* the CLI no step of process_turn ends the process: after a failed turn
\* run_interactive is back in its loop (which only the user's Ctrl+C between
\* two turns leaves).
C14_AbortedTurnReportsOnce ==
    /\ [](WsTurnAborted =>
            /\ ErrorsSent(ws.events) = 1
            /\ ws.events[Len(ws.events)] = "error"
            /\ WsId \in Live(sessions)
            /\ sessions[WsId].history = ws.hist0)
    /\ [][WsAbortStep => ws'.pc = "receive"]_vars
    /\ [][(mode = "cli" /\ turn > 0) => pc' # "crashed"]_vars
    /\ []((mode = "cli" /\ turn > 0 /\ ghost.exit \notin {NoValue, "success"}) =>
            (pc \in {"returned", "saved"} /\ ~result.success))

C14_Witness ==
    /\ mode = "web"
    /\ ws.pc = "receive"
    /\ ws.turns = 2
    /\ ws.exit = "error"
    /\ ws.at = "generate"
    /\ Len(sessions[WsId].history) = 2

IsResult(e) == e \notin {"status", "error"}

ResultEvents(events) == SelectSeq(events, IsResult)

TurnEvents == <<"transcript", "emotion", "response", "audio">>

\* The steps of process_turn in the order of the claim, each with the local
\* it produces being set and usable.
CliStepsInOrder ==
    /\ frame.speech_emo # NoSample => frame.user_text \notin {NoValue, ""}
    /\ frame.text_emo # NoSample => frame.speech_emo # NoSample
    /\ frame.emotion_context # NoFused =>
          (frame.text_emo # NoSample /\ "fuse" \in ghost.invoked)
    /\ "llm" \in ghost.invoked =>
          /\ frame.user_text \notin {NoValue, ""}
          /\ frame.emotion_context # NoFused
          /\ frame.messages # << >>
    /\ "tts" \in ghost.invoked => frame.response \in Responses
    /\ pc \in {"play", "update_history"} => frame.audio_response = "speech"
    /\ result.success =>
          /\ frame.audio_response = "speech"
          /\ pc = "returned" /\ ghost.at = "update_history"

WsStepsInOrder ==
    /\ "fuse" \in ws.invoked => ws.transcript \notin {NoValue, ""}
    /\ "llm" \in ws.invoked =>
          /\ ws.transcript \notin {NoValue, ""}
          /\ ws.emotion # NoFused
          /\ ws.messages # << >>
    /\ "tts" \in ws.invoked => ws.response \in Responses
    /\ \E n \in 0..Len(TurnEvents) : ResultEvents(ws.events) = SubSeq(TurnEvents, 1, n)
    /\ ws.exit = "success" => ResultEvents(ws.events) = TurnEvents
    /\ (\E i \in 1..Len(ws.events) : ws.events[i] = "audio") => ws.audio_response = "speech"
    /\ sessions[WsId].history # ws.hist0 => ws.audio_response = "speech"

\* C15: the steps of a turn run in the order transcribe, speech emotion, text
\* emotion, fusion and augmentation, LLM, synthesis, delivery, history update,
\* and a step runs only when every earlier step of the turn produced usable
\* output (a non-empty transcript, both samples, a fused emotion, a response,
\* non-empty audio); the result events of a WebSocket turn are a prefix of
\* transcript, emotion, response, audio, and all four for a completed turn.
C15_StepsInOrder ==
    /\ mode = "cli" => CliStepsInOrder
    /\ (mode = "web" /\ ws.pc # "off") => WsStepsInOrder

Fused == mode = "fusion" /\ ret.done

\* C16: the primary_emotion fuse returns is a key of combined_scores whose
\* value is the maximum, confidence is that value, of several categories
\* with the maximum the primary is the first one in EMOTION_CATEGORIES, and
\* no combined value is negative (scores are non-negative, weights in [0,1]).
C16_PrimaryIsArgmax ==
    Fused =>
        LET r  == ret.value
            cs == r.combined_scores IN
          /\ r.primary_emotion \in DOMAIN cs
          /\ r.confidence = cs[r.primary_emotion]
          /\ \A c \in DOMAIN cs :
                /\ cs[c] >= 0
                /\ cs[c] <= r.confidence
                /\ cs[c] = r.confidence =>
                      CategoryIndex(r.primary_emotion) <= CategoryIndex(c)

C16_Witness ==
    /\ Fused
    /\ ret.value.combined_scores["anger"] = ret.value.combined_scores["neutral"]
    /\ ret.value.combined_scores["anger"] > 0
    /\ ret.value.primary_emotion = "anger"

LabelsDiffer == Lower(arg.speech.emotion) # Lower(arg.text.emotion)

\* C17: under the consensus policy, labels that differ when compared in lower
\* case give combined_scores with neutral = 1.0 and every other category 0.0
\* whatever the scores are, primary_emotion neutral and no secondary_emotion;
\* labels that match give the combined_scores, primary_emotion, confidence and
\* secondary_emotion that the averaging policy gives for the same inputs and
\* weights.
C17_ConsensusCollapse ==
    (Fused /\ arg.config.conflict_strategy = "consensus") =>
        LET r == ret.value
            a == fuse([arg.config EXCEPT !.conflict_strategy = "averaging"],
                      arg.speech, arg.text) IN
          IF LabelsDiffer
          THEN /\ r.combined_scores = [cat \in Categories |-> IF cat = "neutral" THEN 100 ELSE 0]
               /\ r.primary_emotion = "neutral"
               /\ r.confidence = 100
               /\ r.secondary_emotion = NoValue
          ELSE /\ r.combined_scores = a.combined_scores
               /\ r.primary_emotion = a.primary_emotion
               /\ r.confidence = a.confidence
               /\ r.secondary_emotion = a.secondary_emotion

C17_Witness ==
    /\ Fused
    /\ arg.config.conflict_strategy = "consensus"
    /\ arg.speech.emotion = "anger"
    /\ arg.text.emotion = "neutral"
    /\ arg.speech.scores = [k \in {"anger"} |-> 8]
    /\ arg.text.scores = [k \in {"anger"} |-> 8]
    /\ ret.value.primary_emotion = "neutral"

RECURSIVE SumOver(_, _)
SumOver(scores, ks) ==
    IF ks = {} THEN 0
    ELSE LET k == CHOOSE x \in ks : TRUE IN scores[k] + SumOver(scores, ks \ {k})

\* A sample of the claim's precondition: non-negative scores that sum to at
\* most 1, with the label's score equal to the confidence and the maximum
\* (the label is looked up in lower case, as fuse reads the scores).
ValidSample(x) ==
    /\ \A k \in DOMAIN x.scores : x.scores[k] >= 0 /\ x.scores[k] <= x.confidence
    /\ SumOver(x.scores, DOMAIN x.scores) <= 10
    /\ Lower(x.emotion) \in Categories
    /\ normalize_scores(x.scores)[Lower(x.emotion)] = x.confidence

\* C18: under speech_dominant the combined score of every category is
\* alpha * speech + (1 - alpha) * text with alpha = 0.8 when
\* speech.confidence > 0.7 and alpha = speech_weight otherwise (at 0.7 too);
\* and for valid samples with speech.confidence > 0.7 the primary_emotion is
\* the speech label, whatever the text label and confidence.
C18_SpeechDominantAlpha ==
    (Fused /\ arg.config.conflict_strategy = "speech_dominant") =>
        LET r == ret.value
            alpha == IF arg.speech.confidence > 7 THEN 8 ELSE arg.config.speech_weight
            sp == normalize_scores(arg.speech.scores)
            tx == normalize_scores(arg.text.scores) IN
          /\ \A cat \in Categories :
                r.combined_scores[cat] = alpha * sp[cat] + (10 - alpha) * tx[cat]
          /\ (arg.speech.confidence > 7 /\ ValidSample(arg.speech) /\ ValidSample(arg.text)) =>
                r.primary_emotion = Lower(arg.speech.emotion)

C18_Witness ==
    /\ Fused
    /\ arg.config.conflict_strategy = "speech_dominant"
    /\ arg.speech.confidence = 8
    /\ arg.text.confidence = 8
    /\ ValidSample(arg.speech)
    /\ ValidSample(arg.text)
    /\ LabelsDiffer
    /\ ret.value.primary_emotion = Lower(arg.speech.emotion)
    /\ ret.value.secondary_emotion = NoValue

\* The score an input gives a category: that of its key which is the
\* category in some case, 0.0 when it has none.
ScoreOf(x, cat) ==
    IF \E k \in DOMAIN x.scores : Lower(k) = cat
    THEN x.scores[CHOOSE k \in DOMAIN x.scores : Lower(k) = cat]
    ELSE 0

\* C19: the keys of combined_scores are exactly the eight categories of
\* EMOTION_CATEGORIES under every policy; a category an input does not hold
\* counts as 0.0, a key in another case counts for its category and a key
\* that is no category counts for nothing and is no key of the output.
C19_CombinedHasAllCategories ==
    Fused =>
        LET cs == ret.value.combined_scores
            c  == arg.config IN
          /\ DOMAIN cs = Categories
          /\ c.conflict_strategy = "averaging" =>
                \A cat \in Categories :
                    cs[cat] = c.speech_weight * ScoreOf(arg.speech, cat)
                                + c.text_weight * ScoreOf(arg.text, cat)
          /\ \A cat \in Categories :
                (ScoreOf(arg.speech, cat) = 0 /\ ScoreOf(arg.text, cat) = 0
                    /\ ~(c.conflict_strategy = "consensus" /\ LabelsDiffer)) => cs[cat] = 0

C19_Witness ==
    /\ Fused
    /\ arg.config.conflict_strategy = "averaging"
    /\ DOMAIN arg.speech.scores = {"bogus", "Neutral"}
    /\ DOMAIN arg.text.scores = {"bogus"}
    /\ ret.value.combined_scores["neutral"] > 0
    /\ ret.value.combined_scores["anger"] = 0
    /\ DOMAIN ret.value.combined_scores = Categories

Augmented == mode = "augment" /\ ret.done

HasEntry == arg.emotion_context.primary_emotion \in DOMAIN arg.emotions

\* The configured prompt_addition of the primary emotion, "" when the entry
\* has none.
Addition ==
    IF HasEntry /\ "prompt_addition" \in DOMAIN arg.emotions[arg.emotion_context.primary_emotion]
    THEN arg.emotions[arg.emotion_context.primary_emotion]["prompt_addition"]
    ELSE << >>

BlankAddition == \A i \in 1..Len(Addition) : Addition[i] \in WhitespacePieces

\* str contains `EMOTION CONTEXT:` followed, after the line break, by part.
HasEmotionContextBlock(str, part) ==
    \E i \in 1..Len(str) :
        /\ str[i] = "EMOTION CONTEXT:"
        /\ i + 1 + Len(part) <= Len(str)
        /\ str[i + 1] = "\n"
        /\ SubSeq(str, i + 2, i + 1 + Len(part)) = part

\* C20: augment_system_prompt returns base_prompt itself when confidence < 0.5
\* and when the primary emotion has no entry or an empty or white-space-only
\* prompt_addition; otherwise (confidence >= 0.5, non-blank addition) it
\* returns a strictly longer string that starts with base_prompt and holds
\* an EMOTION CONTEXT block with the addition.
C20_AugmentIdentityOrBlock ==
    Augmented =>
        LET r    == ret.value
            base == arg.base_prompt IN
          /\ arg.emotion_context.confidence < 50 => r = base
          /\ (~HasEntry \/ BlankAddition) => r = base
          /\ (arg.emotion_context.confidence >= 50 /\ ~BlankAddition) =>
                /\ Len(r) > Len(base)
                /\ SubSeq(r, 1, Len(base)) = base
                /\ HasEmotionContextBlock(r, Addition)

C20_Witness ==
    /\ Augmented
    /\ arg.emotion_context.confidence = 50
    /\ arg.emotion_context.primary_emotion = "anger"
    /\ arg.base_prompt # << >>
    /\ Len(ret.value) > Len(arg.base_prompt)
    /\ HasEmotionContextBlock(ret.value, Addition)

ConfigCalled == mode = "config" /\ ret.done

\* What the call gives when the built-in default table is the configuration.
WithDefaults ==
    IF arg.fn = "augment_system_prompt"
    THEN augment_system_prompt(DefaultEmotions, arg.base_prompt, arg.emotion_context)
    ELSE get_voice_description(DefaultEmotions, arg.emotion_context)

\* C21: for every state of the configuration file, constructing
\* PromptAugmenter and calling augment_system_prompt or
\* get_voice_description returns a string and never raises; a file that is
\* missing, unreadable or malformed gives what the default table gives.
C21_AugmentationNeverThrows ==
    ConfigCalled =>
        /\ ~ret.raised
        /\ arg.file.state # "parsed" => ret.value = WithDefaults

\* C22: in the speaking phase the voice description that conditions
\* synthesis is the one PromptAugmenter.get_voice_description returns for the
\* turn's fused emotion, for every category and confidence below and at or
\* above 0.5.
C22_VoiceDirectiveFromAugmenter ==
    (mode = "speak" /\ ret.done) =>
        /\ ret.conditioned
        /\ ret.value = get_voice_description(arg.emotions, arg.emotion_context)

\* What PromptAugmenter.augment_system_prompt gives for the same
\* configuration, prompt and fused emotion.
AugmenterGives ==
    augment_system_prompt(DictGet(arg.emotion_prompts, "emotions", EmptyDict),
                          arg.system_prompt, arg.emotion)

LlmAddition ==
    DictGet(DictGet(DictGet(arg.emotion_prompts, "emotions", EmptyDict),
                    arg.emotion.primary_emotion, EmptyDict),
            "prompt_addition", << >>)

\* C23: the backend's LLMService._augment_system_prompt leaves the system
\* prompt unchanged exactly when PromptAugmenter.augment_system_prompt does
\* (confidence < 0.5, or no non-empty prompt_addition for the emotion) and
\* adds the emotion's prompt_addition in every other case; high_confidence
\* gates nothing.
C23_BackendAugmentsLikeAugmenter ==
    (mode = "llm" /\ ret.done) =>
        /\ (ret.value = arg.system_prompt) <=> (AugmenterGives = arg.system_prompt)
        /\ AugmenterGives # arg.system_prompt =>
              \E i \in 1..Len(ret.value) :
                  SubSeq(ret.value, i, i + Len(LlmAddition) - 1) = LlmAddition

\* The category ranked second in combined_scores: the largest value after
\* the primary, the earlier category of EMOTION_CATEGORIES among equals.
SecondRanked(r) ==
    CHOOSE c \in DOMAIN r.combined_scores \ {r.primary_emotion} :
        \A d \in DOMAIN r.combined_scores \ {r.primary_emotion, c} :
            \/ r.combined_scores[d] < r.combined_scores[c]
            \/ /\ r.combined_scores[d] = r.combined_scores[c]
               /\ CategoryIndex(c) < CategoryIndex(d)

\* C24: for every input pair and policy, secondary_emotion is the
\* second-ranked category of combined_scores when its value is strictly
\* greater than 0.2 and null otherwise (exactly 0.2 gives null); when not
\* null it differs from primary_emotion and its value does not exceed
\* confidence.
C24_SecondaryAboveThreshold ==
    Fused =>
        LET r == ret.value IN
          /\ r.secondary_emotion =
                IF r.combined_scores[SecondRanked(r)] > 20 THEN SecondRanked(r)
                ELSE NoValue
          /\ r.secondary_emotion # NoValue =>
                /\ r.secondary_emotion # r.primary_emotion
                /\ r.combined_scores[r.secondary_emotion] <= r.confidence

C24_Witness ==
    /\ Fused
    /\ ret.value.combined_scores[SecondRanked(ret.value)] = 20
    /\ ret.value.confidence > 20
    /\ ret.value.secondary_emotion = NoValue

\* C25: in process_turn the object that performs a transient computation is
\* resident only between the ModelManager load and unload of its phase: at
\* any time at most one instance of each transient model is materialized
\* (the manager's or the pipeline's own, not both), and while the manager
\* holds no model in a slot the pipeline holds no instance of it either.
C25_OneInstancePerTransient ==
    mode = "cli" =>
        \A s \in TransientSlots :
            /\ ~(own[s] /\ manager.handle[s] # None)
            /\ manager.handle[s] = None => ~own[s]

\* The engine the fusion section of the loaded configuration describes.
ConfiguredEngine ==
    [speech_weight     |-> arg.emotion_prompts.fusion.speech_weight,
     text_weight       |-> arg.emotion_prompts.fusion.text_weight,
     conflict_strategy |-> arg.emotion_prompts.fusion.conflict_resolution]

\* C26: the fusion engine the backend's ModelService builds applies the
\* speech_weight, text_weight and conflict_resolution of the fusion section
\* of the loaded emotion configuration: fuse reports the configured policy
\* as fusion_method and combines the scores with the configured weights.
C26_BackendFusionUsesConfig ==
    (mode = "engine" /\ ret.done /\ "fusion" \in DOMAIN arg.emotion_prompts) =>
        /\ ret.value.fusion_method = arg.emotion_prompts.fusion.conflict_resolution
        /\ ret.value.combined_scores =
              fuse(ConfiguredEngine, arg.speech, arg.text).combined_scores

\* The text detector's top score, in tenths.
TopScore(sample) ==
    CHOOSE v \in {sample.scores[k] : k \in DOMAIN sample.scores} :
        \A k \in DOMAIN sample.scores : sample.scores[k] <= v

HighConfidence ==
    DictGet(DictGet(arg.emotion_prompts, "thresholds", EmptyDict), "high_confidence", 70)

\* C27: on POST /text-chat (empty audio: the speech sample is the neutral
\* default, all scores 0, confidence 0.5) the fused confidence is 0.4 times
\* the text detector's top score, so at most 0.4, and for every
\* high_confidence threshold above 0.4 the LLM receives the system prompt
\* without any emotion addition.
C27_TextChatNeverAugments ==
    (mode = "textchat" /\ "emotion" \in DOMAIN ret) =>
        /\ ret.emotion.confidence = 4 * TopScore(arg.text)
        /\ ret.emotion.confidence <= 40
        /\ (ret.done /\ HighConfidence > 40) => ret.value = arg.system_prompt

C27_Witness ==
    /\ mode = "textchat"
    /\ ret.done
    /\ arg.text.emotion = "anger"
    /\ arg.text.confidence = 10
    /\ HighConfidence = 41
    /\ arg.emotion_prompts.fusion.conflict_resolution = "averaging"
    /\ ret.emotion.primary_emotion = "anger"
    /\ ret.emotion.confidence = 40
    /\ ret.value = arg.system_prompt

\* history holds a user and an assistant entry per recorded emotion.
SessionShape(session) ==
    /\ Len(session.history) = 2 * Len(session.emotion_history)
    /\ \A i \in 1..Len(session.history) :
          session.history[i].role = IF i % 2 = 1 THEN "user" ELSE "assistant"

ChangedSessions == {id \in SessionIds : sessions'[id] # sessions[id]}

\* C28: for every interleaving of create_session, add_turn, delete_session
\* and history reads (a WebSocket turn and REST calls running concurrently
\* included), every existing session's history has twice as many entries as
\* its emotion_history and alternates user, assistant; a call changes no
\* session but the one it names; add_turn, get_history and export_session
\* on an unknown or deleted id raise SessionError and change no session.
C28_SessionsStayConsistent ==
    /\ [](\A id \in Live(sessions) : SessionShape(sessions[id]))
    /\ [][Cardinality(ChangedSessions) <= 1]_vars
    /\ [][mode = "sessions" => ChangedSessions \subseteq {ret'.sid}]_vars
    /\ [][(/\ mode = "sessions"
           /\ ret'.fn \in {"add_turn", "get_history", "export_session"}
           /\ ret'.sid \notin Live(sessions)) =>
              (ret'.raised = "SessionError" /\ sessions' = sessions)]_vars
    /\ [][\A r \in Requests :
            (/\ mode = "web"
             /\ rest[r].pc = "await_llm"
             /\ rest'[r].pc = "done"
             /\ rest[r].sid \notin Live(sessions)) =>
                (rest'[r].status # 200 /\ sessions' = sessions)]_vars

C28_Witness ==
    /\ mode = "sessions"
    /\ ret.done
    /\ ret.fn = "add_turn"
    /\ ret.raised = "SessionError"
    /\ sessions[ret.sid].state = "deleted"
    /\ \E id \in Live(sessions) : Len(sessions[id].history) = 2

\* A turn in which Ctrl+C arrived (during recording or a later phase) has
\* handed its result back to run_interactive.
InterruptedTurnOver == mode = "cli" /\ pc = "returned" /\ ghost.interrupted

\* C29: with max_turns = None, a KeyboardInterrupt that arrives while a turn
\* is in progress eventually ends run_interactive's loop: no further turn is
\* started and the conversation is saved by _save_conversation.
C29_InterruptEndsLoop ==
    /\ [][InterruptedTurnOver => turn' = turn]_vars
    /\ [](InterruptedTurnOver => <>(pc = "saved"))

\* ceil(max_duration / 0.5)
MaxChunks == (arg.max_duration + ChunkDuration - 1) \div ChunkDuration

\* The number of non-speech chunks at the end of the list.
RECURSIVE TrailingSilence(_)
TrailingSilence(chunks) ==
    IF chunks = << >> \/ chunks[Len(chunks)] THEN 0
    ELSE 1 + TrailingSilence(SubSeq(chunks, 1, Len(chunks) - 1))

\* The last chunk is a non-speech chunk after some speech chunk and brings
\* the run of consecutive non-speech chunks to the configured number.
StopsHere(chunks) ==
    /\ chunks # << >>
    /\ ~chunks[Len(chunks)]
    /\ \E i \in 1..Len(chunks) : chunks[i]
    /\ TrailingSilence(chunks) >= arg.min_silence_duration \div ChunkDuration

\* C30: record_until_silence always terminates; it records at most
\* ceil(max_duration / 0.5) chunks; once a chunk was speech it stops at the
\* first non-speech chunk that brings the run of consecutive non-speech
\* chunks to int(min_silence_duration / 0.5), the run starting anew after
\* every speech chunk; non-speech chunks before the first speech chunk never
\* stop it; it returns empty audio only when interrupted.
C30_RecordingTerminates ==
    /\ [](mode = "record" =>
            /\ Len(recording.audio_chunks) <= MaxChunks
            /\ recording.pc = "loop" => ~StopsHere(recording.audio_chunks)
            /\ (recording.pc = "returned" /\ recording.exit = "return") =>
                  /\ \/ StopsHere(recording.audio_chunks)
                     \/ Len(recording.audio_chunks) = MaxChunks
                  /\ \A n \in 1..(Len(recording.audio_chunks) - 1) :
                        ~StopsHere(SubSeq(recording.audio_chunks, 1, n))
            /\ (recording.pc = "returned" /\ recording.audio = << >>) =>
                  recording.exit = "interrupt")
    /\ (mode = "record" => <>(recording.pc \in {"returned", "raised"}))

C30_Witness ==
    /\ mode = "record"
    /\ recording.pc = "returned"
    /\ recording.exit = "return"
    /\ arg.min_silence_duration = 10
    /\ recording.audio_chunks = <<FALSE, TRUE, FALSE, TRUE, FALSE, FALSE>>
    /\ recording.audio # << >>

====
